---- MODULE Spec2Model ----
(***************************************************************************)
(* HyprlandIPC (src/windowmanager/hyprland/hyprland_utils/ipc.py): the     *)
(* command channel (send, send_json, dispatch, dispatch_many, batch), the   *)
(* event stream reader (events, listen_events) and the socket locator      *)
(* (from_env), as state machines over Unix stream sockets whose peer is    *)
(* the environment, for one caller and for several.                        *)
(*                                                                         *)
(* Text (Python str) is a sequence of Unicode code points, wire data       *)
(* (Python bytes) a sequence of integers 0..255.  A literal is written as  *)
(* its code points with the text beside it.                                *)
(***************************************************************************)
EXTENDS Integers, Sequences, FiniteSets, TLC

VARIABLES
    stack,      \* the call stack of the command-channel caller, innermost frame last
    ret,        \* what the frame that ended last handed to its caller: a value or a raised exception
    conns,      \* every command-socket connection of the current top-level call, oldest first
    calls,      \* the command of every send() invocation of the current top-level call, oldest first
    top,        \* the top-level call in progress, or the one whose outcome ret holds
    gen,        \* the events() generator object: its position in the body
    evsock,     \* the event-socket connection the generator opened
    evout,      \* the Events the generator has yielded, oldest first
    os,         \* the process's surroundings: its environment variables, the files of the
                \* runtime directory, and the file lookups of the from_env call in progress
    me,         \* the caller (thread) that runs: stack, ret, calls, top, gen, evsock, evout are its own
    others      \* the callers that wait their turn, each with its own of these

cmdVars == <<stack, ret, conns, calls, top>>
evVars == <<gen, evsock, evout>>
hostVars == <<os, me, others>>
vars == <<stack, ret, conns, calls, top, gen, evsock, evout, os, me, others>>

(***************************************************************************)
(* Text and bytes: the str/bytes methods the client uses.                  *)
(***************************************************************************)

\* The text literals of ipc.py.
txt ==
    [ \* "unknown"
      unknown |-> <<117, 110, 107, 110, 111, 119, 110>>,
      \* "dispatch "
      dispatch |-> <<100, 105, 115, 112, 97, 116, 99, 104, 32>>,
      \* "; "
      join |-> <<59, 32>>,
      \* "j/"
      jsonPrefix |-> <<106, 47>>,
      \* "': "
      quoteColon |-> <<39, 58, 32>>,
      \* "Failed to send IPC command '"
      sendFailed |-> <<70, 97, 105, 108, 101, 100, 32, 116, 111, 32, 115, 101, 110, 100, 32,
                       73, 80, 67, 32, 99, 111, 109, 109, 97, 110, 100, 32, 39>>,
      \* "Hyprland returned an error: "
      returnedError |-> <<72, 121, 112, 114, 108, 97, 110, 100, 32, 114, 101, 116, 117, 114,
                          110, 101, 100, 32, 97, 110, 32, 101, 114, 114, 111, 114, 58, 32>>,
      \* "Invalid JSON response for command '"
      invalidJson |-> <<73, 110, 118, 97, 108, 105, 100, 32, 74, 83, 79, 78, 32, 114, 101, 115,
                        112, 111, 110, 115, 101, 32, 102, 111, 114, 32, 99, 111, 109, 109, 97,
                        110, 100, 32, 39>>,
      \* "Failed to send or parse JSON for command '"
      jsonFailed |-> <<70, 97, 105, 108, 101, 100, 32, 116, 111, 32, 115, 101, 110, 100, 32,
                       111, 114, 32, 112, 97, 114, 115, 101, 32, 74, 83, 79, 78, 32, 102, 111,
                       114, 32, 99, 111, 109, 109, 97, 110, 100, 32, 39>>,
      \* "Failed to dispatch '"
      dispatchFailed |-> <<70, 97, 105, 108, 101, 100, 32, 116, 111, 32, 100, 105, 115, 112,
                           97, 116, 99, 104, 32, 39>>,
      \* "Failed to dispatch command '"
      dispatchCommandFailed |-> <<70, 97, 105, 108, 101, 100, 32, 116, 111, 32, 100, 105, 115,
                                  112, 97, 116, 99, 104, 32, 99, 111, 109, 109, 97, 110, 100,
                                  32, 39>>,
      \* "Failed to read events: "
      eventsFailed |-> <<70, 97, 105, 108, 101, 100, 32, 116, 111, 32, 114, 101, 97, 100, 32,
                         101, 118, 101, 110, 116, 115, 58, 32>>,
      \* "XDG_RUNTIME_DIR"
      xdgRuntimeDir |-> <<88, 68, 71, 95, 82, 85, 78, 84, 73, 77, 69, 95, 68, 73, 82>>,
      \* "HYPRLAND_INSTANCE_SIGNATURE"
      instanceSignature |-> <<72, 89, 80, 82, 76, 65, 78, 68, 95, 73, 78, 83, 84, 65, 78, 67,
                              69, 95, 83, 73, 71, 78, 65, 84, 85, 82, 69>>,
      \* "Must run under Hyprland (missing: "
      mustRun |-> <<77, 117, 115, 116, 32, 114, 117, 110, 32, 117, 110, 100, 101, 114, 32, 72,
                    121, 112, 114, 108, 97, 110, 100, 32, 40, 109, 105, 115, 115, 105, 110,
                    103, 58, 32>>,
      \* "Expected Hyprland socket files not found."
      socketsNotFound |-> <<69, 120, 112, 101, 99, 116, 101, 100, 32, 72, 121, 112, 114, 108,
                            97, 110, 100, 32, 115, 111, 99, 107, 101, 116, 32, 102, 105, 108,
                            101, 115, 32, 110, 111, 116, 32, 102, 111, 117, 110, 100, 46>>,
      \* "hypr", ".socket.sock", ".socket2.sock"
      hypr |-> <<104, 121, 112, 114>>,
      socketSock |-> <<46, 115, 111, 99, 107, 101, 116, 46, 115, 111, 99, 107>>,
      socket2Sock |-> <<46, 115, 111, 99, 107, 101, 116, 50, 46, 115, 111, 99, 107>> ]

\* str.startswith
StartsWith(s, p) == Len(s) >= Len(p) /\ SubSeq(s, 1, Len(p)) = p

\* `p in s` for str and bytes
Contains(s, p) ==
    \E i \in 1..(Len(s) - Len(p) + 1) : SubSeq(s, i, i + Len(p) - 1) = p

\* The first index at or after `from` where p occurs in s, or 0 (find() + 1).
Find(s, p, from) ==
    LET hits == {i \in from..(Len(s) - Len(p) + 1) : SubSeq(s, i, i + Len(p) - 1) = p}
    IN  IF hits = {} THEN 0 ELSE CHOOSE i \in hits : \A j \in hits : i <= j

\* str.isspace of one code point
IsSpace(c) ==
    \/ c \in 9..13
    \/ c \in 28..32
    \/ c \in {133, 160, 5760, 8232, 8233, 8239, 8287, 12288}
    \/ c \in 8192..8202

\* str.strip(): the text without its leading and trailing whitespace
Strip(s) ==
    LET keep == {i \in 1..Len(s) : ~IsSpace(s[i])}
    IN  IF keep = {} THEN <<>>
        ELSE SubSeq(s, CHOOSE i \in keep : \A j \in keep : i <= j,
                       CHOOSE i \in keep : \A j \in keep : j <= i)

\* str.lower() of one code point (ASCII and Latin-1 letters)
LowerChar(c) ==
    IF c \in 65..90 \/ (c \in 192..222 /\ c # 215) THEN c + 32 ELSE c

Lower(s) == [i \in 1..Len(s) |-> LowerChar(s[i])]

\* sep.join(parts)
RECURSIVE Join(_, _)
Join(parts, sep) ==
    IF parts = <<>> THEN <<>>
    ELSE IF Len(parts) = 1 THEN parts[1]
    ELSE parts[1] \o sep \o Join(Tail(parts), sep)

\* str(n) of a natural number
RECURSIVE Digits(_)
Digits(n) == IF n < 10 THEN <<48 + n>> ELSE Digits(n \div 10) \o <<48 + (n % 10)>>

(***************************************************************************)
(* Exceptions.  An exception object is its type, the raise site that built *)
(* its message, the command and detail text the message embeds, and its    *)
(* __cause__ (`raise ... from e`): a sequence holding the cause, or empty. *)
(***************************************************************************)
Exc(type, site, command, detail, cause) ==
    [type |-> type, site |-> site, command |-> command, detail |-> detail, cause |-> cause]

\* An exception raised by the interpreter or the standard library: its message is `detail`.
LibExc(type, detail) == Exc(type, "lib", <<>>, detail, <<>>)

(***************************************************************************)
(* UTF-8, as bytes.decode("utf-8") and str.encode("utf-8") compute it.     *)
(***************************************************************************)
pytxt ==
    [ \* "'utf-8' codec can't decode byte 0x"
      cantDecodeByte |-> <<39, 117, 116, 102, 45, 56, 39, 32, 99, 111, 100, 101, 99, 32, 99,
                           97, 110, 39, 116, 32, 100, 101, 99, 111, 100, 101, 32, 98, 121, 116,
                           101, 32, 48, 120>>,
      \* "'utf-8' codec can't decode bytes in position "
      cantDecodeBytes |-> <<39, 117, 116, 102, 45, 56, 39, 32, 99, 111, 100, 101, 99, 32, 99,
                            97, 110, 39, 116, 32, 100, 101, 99, 111, 100, 101, 32, 98, 121,
                            116, 101, 115, 32, 105, 110, 32, 112, 111, 115, 105, 116, 105, 111,
                            110, 32>>,
      \* "'utf-8' codec can't encode character '\u"
      cantEncodeChar |-> <<39, 117, 116, 102, 45, 56, 39, 32, 99, 111, 100, 101, 99, 32, 99,
                           97, 110, 39, 116, 32, 101, 110, 99, 111, 100, 101, 32, 99, 104, 97,
                           114, 97, 99, 116, 101, 114, 32, 39, 92, 117>>,
      \* "'utf-8' codec can't encode characters in position "
      cantEncodeChars |-> <<39, 117, 116, 102, 45, 56, 39, 32, 99, 111, 100, 101, 99, 32, 99,
                            97, 110, 39, 116, 32, 101, 110, 99, 111, 100, 101, 32, 99, 104, 97,
                            114, 97, 99, 116, 101, 114, 115, 32, 105, 110, 32, 112, 111, 115,
                            105, 116, 105, 111, 110, 32>>,
      \* " in position "
      inPosition |-> <<32, 105, 110, 32, 112, 111, 115, 105, 116, 105, 111, 110, 32>>,
      \* "' in position "
      quoteInPosition |-> <<39, 32, 105, 110, 32, 112, 111, 115, 105, 116, 105, 111, 110, 32>>,
      \* "surrogates not allowed"
      surrogates |-> <<115, 117, 114, 114, 111, 103, 97, 116, 101, 115, 32, 110, 111, 116, 32,
                       97, 108, 108, 111, 119, 101, 100>>,
      \* "invalid start byte"
      invalidStart |-> <<105, 110, 118, 97, 108, 105, 100, 32, 115, 116, 97, 114, 116, 32, 98,
                         121, 116, 101>>,
      \* "invalid continuation byte"
      invalidContinuation |-> <<105, 110, 118, 97, 108, 105, 100, 32, 99, 111, 110, 116, 105,
                                110, 117, 97, 116, 105, 111, 110, 32, 98, 121, 116, 101>>,
      \* "unexpected end of data"
      unexpectedEnd |-> <<117, 110, 101, 120, 112, 101, 99, 116, 101, 100, 32, 101, 110, 100,
                          32, 111, 102, 32, 100, 97, 116, 97>>,
      \* ": "
      colon |-> <<58, 32>>,
      \* "-"
      dash |-> <<45>>,
      \* "Expecting value"
      expectingValue |-> <<69, 120, 112, 101, 99, 116, 105, 110, 103, 32, 118, 97, 108, 117,
                           101>>,
      \* "Expecting ',' delimiter"
      expectingComma |-> <<69, 120, 112, 101, 99, 116, 105, 110, 103, 32, 39, 44, 39, 32, 100,
                           101, 108, 105, 109, 105, 116, 101, 114>>,
      \* "Expecting ':' delimiter"
      expectingColon |-> <<69, 120, 112, 101, 99, 116, 105, 110, 103, 32, 39, 58, 39, 32, 100,
                           101, 108, 105, 109, 105, 116, 101, 114>>,
      \* "Expecting property name enclosed in double quotes"
      expectingName |-> <<69, 120, 112, 101, 99, 116, 105, 110, 103, 32, 112, 114, 111, 112,
                          101, 114, 116, 121, 32, 110, 97, 109, 101, 32, 101, 110, 99, 108,
                          111, 115, 101, 100, 32, 105, 110, 32, 100, 111, 117, 98, 108, 101,
                          32, 113, 117, 111, 116, 101, 115>>,
      \* "Extra data"
      extraData |-> <<69, 120, 116, 114, 97, 32, 100, 97, 116, 97>>,
      \* "Unterminated string starting at"
      unterminated |-> <<85, 110, 116, 101, 114, 109, 105, 110, 97, 116, 101, 100, 32, 115,
                         116, 114, 105, 110, 103, 32, 115, 116, 97, 114, 116, 105, 110, 103,
                         32, 97, 116>>,
      \* "Invalid control character at"
      controlChar |-> <<73, 110, 118, 97, 108, 105, 100, 32, 99, 111, 110, 116, 114, 111, 108,
                        32, 99, 104, 97, 114, 97, 99, 116, 101, 114, 32, 97, 116>>,
      \* "Invalid \escape"
      invalidEscape |-> <<73, 110, 118, 97, 108, 105, 100, 32, 92, 101, 115, 99, 97, 112, 101>>,
      \* "Invalid \uXXXX escape"
      invalidUEscape |-> <<73, 110, 118, 97, 108, 105, 100, 32, 92, 117, 88, 88, 88, 88, 32,
                           101, 115, 99, 97, 112, 101>>,
      \* "Unexpected UTF-8 BOM (decode using utf-8-sig)"
      bom |-> <<85, 110, 101, 120, 112, 101, 99, 116, 101, 100, 32, 85, 84, 70, 45, 56, 32, 66,
                79, 77, 32, 40, 100, 101, 99, 111, 100, 101, 32, 117, 115, 105, 110, 103, 32,
                117, 116, 102, 45, 56, 45, 115, 105, 103, 41>>,
      \* ": line "
      line |-> <<58, 32, 108, 105, 110, 101, 32>>,
      \* " column "
      column |-> <<32, 99, 111, 108, 117, 109, 110, 32>>,
      \* " (char "
      char |-> <<32, 40, 99, 104, 97, 114, 32>>,
      \* ")"
      paren |-> <<41>>,
      \* "null"
      null |-> <<110, 117, 108, 108>>,
      \* "true"
      true |-> <<116, 114, 117, 101>>,
      \* "false"
      false |-> <<102, 97, 108, 115, 101>>,
      \* "NaN"
      naN |-> <<78, 97, 78>>,
      \* "Infinity"
      infinity |-> <<73, 110, 102, 105, 110, 105, 116, 121>>,
      \* "-Infinity"
      minusInfinity |-> <<45, 73, 110, 102, 105, 110, 105, 116, 121>>,
      \* "[Errno 111] Connection refused"
      connectionRefused |-> <<91, 69, 114, 114, 110, 111, 32, 49, 49, 49, 93, 32, 67, 111, 110,
                              110, 101, 99, 116, 105, 111, 110, 32, 114, 101, 102, 117, 115,
                              101, 100>>,
      \* "[Errno 32] Broken pipe"
      brokenPipe |-> <<91, 69, 114, 114, 110, 111, 32, 51, 50, 93, 32, 66, 114, 111, 107, 101,
                       110, 32, 112, 105, 112, 101>>,
      \* "[Errno 104] Connection reset by peer"
      connectionReset |-> <<91, 69, 114, 114, 110, 111, 32, 49, 48, 52, 93, 32, 67, 111, 110,
                            110, 101, 99, 116, 105, 111, 110, 32, 114, 101, 115, 101, 116, 32,
                            98, 121, 32, 112, 101, 101, 114>> ]

HexDigit(n) == IF n < 10 THEN 48 + n ELSE 87 + n
Hex2(b) == <<HexDigit(b \div 16), HexDigit(b % 16)>>
Hex4(c) == Hex2(c \div 256) \o Hex2(c % 256)

\* The number of bytes the sequence led by byte b has; 0 when b cannot lead one.
Utf8Width(b) ==
    IF b < 128 THEN 1
    ELSE IF b \in 194..223 THEN 2
    ELSE IF b \in 224..239 THEN 3
    ELSE IF b \in 240..244 THEN 4
    ELSE 0

\* Whether byte b may stand at place k (2..4) of the sequence led by byte lead.
Utf8ContinuationOk(lead, k, b) ==
    IF k = 2 /\ lead = 224 THEN b \in 160..191
    ELSE IF k = 2 /\ lead = 237 THEN b \in 128..159
    ELSE IF k = 2 /\ lead = 240 THEN b \in 144..191
    ELSE IF k = 2 /\ lead = 244 THEN b \in 128..143
    ELSE b \in 128..191

\* The code point of the well-formed sequence of w bytes at s[i].
Utf8CodePoint(s, i, w) ==
    IF w = 1 THEN s[i]
    ELSE IF w = 2 THEN (s[i] - 192) * 64 + (s[i + 1] - 128)
    ELSE IF w = 3 THEN (s[i] - 224) * 4096 + (s[i + 1] - 128) * 64 + (s[i + 2] - 128)
    ELSE (s[i] - 240) * 262144 + (s[i + 1] - 128) * 4096
         + (s[i + 2] - 128) * 64 + (s[i + 3] - 128)

\* str(UnicodeDecodeError) for the bytes s[start..end] (1-based, inclusive).
Utf8DecodeMessage(s, start, end, reason) ==
    IF end = start
    THEN pytxt.cantDecodeByte \o Hex2(s[start]) \o pytxt.inPosition \o Digits(start - 1)
         \o pytxt.colon \o reason
    ELSE pytxt.cantDecodeBytes \o Digits(start - 1) \o pytxt.dash \o Digits(end - 1)
         \o pytxt.colon \o reason

\* bytes.decode("utf-8") from index i on: [ok, text] or [ok, err].
RECURSIVE Utf8DecodeFrom(_, _)
Utf8DecodeFrom(s, i) ==
    IF i > Len(s) THEN [ok |-> TRUE, text |-> <<>>]
    ELSE
      LET w == Utf8Width(s[i])
          \* the places 2..w whose byte is missing or wrong, in the sequence at i
          bad == {k \in 2..w : i + k - 1 > Len(s) \/ ~Utf8ContinuationOk(s[i], k, s[i + k - 1])}
          firstBad == CHOOSE k \in bad : \A j \in bad : k <= j
          fail(start, end, reason) ==
              [ok |-> FALSE,
               err |-> LibExc("UnicodeDecodeError", Utf8DecodeMessage(s, start, end, reason))]
      IN  IF w = 0 THEN fail(i, i, pytxt.invalidStart)
          ELSE IF bad # {} THEN
              IF i + firstBad - 1 > Len(s)
              THEN fail(i, Len(s), pytxt.unexpectedEnd)
              ELSE fail(i, i + firstBad - 2, pytxt.invalidContinuation)
          ELSE
              LET rest == Utf8DecodeFrom(s, i + w)
              IN  IF rest.ok
                  THEN [ok |-> TRUE, text |-> <<Utf8CodePoint(s, i, w)>> \o rest.text]
                  ELSE rest

Utf8Decode(s) == Utf8DecodeFrom(s, 1)

IsSurrogate(c) == c \in 55296..57343

\* The UTF-8 bytes of one code point that is no surrogate.
Utf8EncodeChar(c) ==
    IF c < 128 THEN <<c>>
    ELSE IF c < 2048 THEN <<192 + (c \div 64), 128 + (c % 64)>>
    ELSE IF c < 65536 THEN <<224 + (c \div 4096), 128 + ((c \div 64) % 64), 128 + (c % 64)>>
    ELSE <<240 + (c \div 262144), 128 + ((c \div 4096) % 64),
           128 + ((c \div 64) % 64), 128 + (c % 64)>>

RECURSIVE Utf8EncodeAll(_)
Utf8EncodeAll(t) ==
    IF t = <<>> THEN <<>>
    ELSE IF Len(t) = 1 THEN Utf8EncodeChar(t[1])
    ELSE Utf8EncodeAll(SubSeq(t, 1, Len(t) \div 2))
         \o Utf8EncodeAll(SubSeq(t, Len(t) \div 2 + 1, Len(t)))

\* str.encode("utf-8"): [ok, bytes] or [ok, err]; a lone surrogate cannot be encoded.
Utf8Encode(t) ==
    LET sur == {i \in 1..Len(t) : IsSurrogate(t[i])}
        first == CHOOSE i \in sur : \A j \in sur : i <= j
        \* the run of surrogates that starts at first
        stop == CHOOSE j \in first..Len(t) :
                    /\ \A k \in first..j : IsSurrogate(t[k])
                    /\ (j = Len(t) \/ ~IsSurrogate(t[j + 1]))
    IN  IF sur = {} THEN [ok |-> TRUE, bytes |-> Utf8EncodeAll(t)]
        ELSE [ok |-> FALSE,
              err |-> LibExc("UnicodeEncodeError",
                  IF stop = first
                  THEN pytxt.cantEncodeChar \o Hex4(t[first]) \o pytxt.quoteInPosition
                       \o Digits(first - 1) \o pytxt.colon \o pytxt.surrogates
                  ELSE pytxt.cantEncodeChars \o Digits(first - 1) \o pytxt.dash
                       \o Digits(stop - 1) \o pytxt.colon \o pytxt.surrogates)]

(***************************************************************************)
(* json.loads, as the interpreter's json module computes it on a str.      *)
(* A parsed value is [t, v]: t its kind, v always a sequence: null <<>>,   *)
(* bool <<0>> or <<1>>, int <<n>>, float its lexeme, str its code points,  *)
(* arr its items, obj its <<key, value>> pairs in insertion order.         *)
(* Indices are Python's (0-based).                                         *)
(***************************************************************************)

JsonValue(t, v) == [t |-> t, v |-> v]
JsonEmptyObject == JsonValue("obj", <<>>)            \* {}

JsonOk(val, end) == [ok |-> TRUE, val |-> val, end |-> end]
JsonFail(msg, pos) == [ok |-> FALSE, msg |-> msg, pos |-> pos]

\* t[i] in Python's indexing, -1 past the end
At(t, i) == IF i >= 0 /\ i < Len(t) THEN t[i + 1] ELSE -1
\* t[i:j]
Slice(t, i, j) == SubSeq(t, i + 1, IF j > Len(t) THEN Len(t) ELSE j)

JsonWs == {32, 9, 10, 13}
IsDigit(c) == c \in 48..57
IsHex(c) == c \in 48..57 \/ c \in 97..102 \/ c \in 65..70
HexValue(c) == IF c \in 48..57 THEN c - 48 ELSE IF c \in 97..102 THEN c - 87 ELSE c - 55

\* The index of the first character at or after i that is not JSON whitespace.
RECURSIVE JsonSkipWs(_, _)
JsonSkipWs(t, i) == IF At(t, i) \in JsonWs THEN JsonSkipWs(t, i + 1) ELSE i

\* The index after the run of digits that starts at i.
RECURSIVE DigitsEnd(_, _)
DigitsEnd(t, i) == IF IsDigit(At(t, i)) THEN DigitsEnd(t, i + 1) ELSE i

\* int() of a run of digits
RECURSIVE DigitsValue(_)
DigitsValue(d) ==
    IF d = <<>> THEN 0 ELSE DigitsValue(SubSeq(d, 1, Len(d) - 1)) * 10 + (d[Len(d)] - 48)

\* The number at i (the scanner's NUMBER_RE): JsonOk, or JsonFail when none starts there.
\* After an optional sign come the integer part, then a fraction, then an exponent;
\* without fraction and exponent the number is an int, else a float kept as its text.
JsonMatchNumber(t, i) ==
    LET IntEnd(s) ==
            IF At(t, s) = 48 THEN s + 1 ELSE IF At(t, s) \in 49..57 THEN DigitsEnd(t, s) ELSE s
        FracEnd(intEnd) ==
            IF At(t, intEnd) = 46 /\ IsDigit(At(t, intEnd + 1))
            THEN DigitsEnd(t, intEnd + 1) ELSE intEnd
        ExpDigits(fracEnd) == IF At(t, fracEnd + 1) \in {43, 45} THEN fracEnd + 2 ELSE fracEnd + 1
        ExpEnd(fracEnd) ==
            IF At(t, fracEnd) \in {101, 69} /\ IsDigit(At(t, ExpDigits(fracEnd)))
            THEN DigitsEnd(t, ExpDigits(fracEnd)) ELSE fracEnd
        Signed(negative, magnitude) == IF negative THEN 0 - magnitude ELSE magnitude
        Number(s0, intEnd, expEnd) ==
            IF intEnd = s0 THEN JsonFail(pytxt.expectingValue, i)
            ELSE IF expEnd = intEnd
            THEN JsonOk(JsonValue("int", <<Signed(s0 # i, DigitsValue(Slice(t, s0, intEnd)))>>),
                        intEnd)
            ELSE JsonOk(JsonValue("float", Slice(t, i, expEnd)), expEnd)
        From(s0, intEnd) == Number(s0, intEnd, ExpEnd(FracEnd(intEnd)))
        AfterSign(s0) == From(s0, IntEnd(s0))
    IN  AfterSign(IF At(t, i) = 45 THEN i + 1 ELSE i)

\* The character a one-letter escape stands for, or -1.
JsonEscape(c) ==
    CASE c = 34 -> 34 [] c = 92 -> 92 [] c = 47 -> 47 [] c = 98 -> 8 [] c = 102 -> 12
      [] c = 110 -> 10 [] c = 114 -> 13 [] c = 116 -> 9 [] OTHER -> -1

\* Whether four hex digits stand at i..i+3, and their value.
HasHex4(t, i) == \A k \in 0..3 : IsHex(At(t, i + k))
Hex4Value(t, i) ==
    HexValue(At(t, i)) * 4096 + HexValue(At(t, i + 1)) * 256
    + HexValue(At(t, i + 2)) * 16 + HexValue(At(t, i + 3))

\* scanstring: the string whose opening quote is at begin, read from i on.
RECURSIVE JsonScanString(_, _, _, _)
JsonScanString(t, begin, i, acc) ==
    LET c == At(t, i)
        esc == At(t, i + 1)
        uni == Hex4Value(t, i + 2)
        \* a high surrogate followed by \uXXXX holding a low surrogate is one character
        paired == /\ uni \in 55296..56319
                  /\ i + 12 < Len(t)
                  /\ At(t, i + 6) = 92 /\ At(t, i + 7) = 117
    IN  IF c = -1 THEN JsonFail(pytxt.unterminated, begin)
        ELSE IF c = 34 THEN JsonOk(JsonValue("str", acc), i + 1)
        ELSE IF c < 32 THEN JsonFail(pytxt.controlChar, i)
        ELSE IF c # 92 THEN JsonScanString(t, begin, i + 1, Append(acc, c))
        ELSE IF esc = -1 THEN JsonFail(pytxt.unterminated, begin)
        ELSE IF esc # 117 THEN
            IF JsonEscape(esc) = -1 THEN JsonFail(pytxt.invalidEscape, i)
            ELSE JsonScanString(t, begin, i + 2, Append(acc, JsonEscape(esc)))
        ELSE IF ~HasHex4(t, i + 2) \/ i + 6 >= Len(t) THEN JsonFail(pytxt.invalidUEscape, i + 1)
        ELSE IF paired THEN
            IF ~HasHex4(t, i + 8) THEN JsonFail(pytxt.invalidUEscape, i + 7)
            ELSE IF Hex4Value(t, i + 8) \in 56320..57343
            THEN JsonScanString(t, begin, i + 12,
                     Append(acc, 65536 + (uni - 55296) * 1024 + (Hex4Value(t, i + 8) - 56320)))
            ELSE JsonScanString(t, begin, i + 6, Append(acc, uni))
        ELSE JsonScanString(t, begin, i + 6, Append(acc, uni))

\* dict[key] = val on a sequence of pairs: an existing key keeps its place.
DictSet(pairs, key, val) ==
    IF \E j \in 1..Len(pairs) : pairs[j][1] = key
    THEN [j \in 1..Len(pairs) |-> IF pairs[j][1] = key THEN <<key, val>> ELSE pairs[j]]
    ELSE Append(pairs, <<key, val>>)

\* A key and its colon (JSONObject): i is the index after the key's opening quote.
\* JsonOk holds the key's text and the index where its value is due.
JsonKey(t, i) ==
    LET Colon(end) == IF At(t, end) = 58 THEN end ELSE JsonSkipWs(t, end)
        Value(k, colon) ==
            IF At(t, colon) # 58 THEN JsonFail(pytxt.expectingColon, colon)
            ELSE JsonOk(k.val.v, JsonSkipWs(t, colon + 1))
        Key(k) == IF ~k.ok THEN k ELSE Value(k, Colon(k.end))
    IN  Key(JsonScanString(t, i - 1, i, <<>>))

\* scan_once for a value that holds no other value: a number or a literal at i.
JsonScalar(t, i) ==
    LET Literal ==
            IF Slice(t, i, i + 4) = pytxt.null THEN JsonOk(JsonValue("null", <<>>), i + 4)
            ELSE IF Slice(t, i, i + 4) = pytxt.true THEN JsonOk(JsonValue("bool", <<1>>), i + 4)
            ELSE IF Slice(t, i, i + 5) = pytxt.false THEN JsonOk(JsonValue("bool", <<0>>), i + 5)
            ELSE IF Slice(t, i, i + 3) = pytxt.naN THEN JsonOk(JsonValue("float", pytxt.naN), i + 3)
            ELSE IF Slice(t, i, i + 8) = pytxt.infinity
            THEN JsonOk(JsonValue("float", pytxt.infinity), i + 8)
            ELSE IF Slice(t, i, i + 9) = pytxt.minusInfinity
            THEN JsonOk(JsonValue("float", pytxt.minusInfinity), i + 9)
            ELSE JsonFail(pytxt.expectingValue, i)
        First(a, b) == IF a.ok THEN a ELSE b
    IN  First(JsonMatchNumber(t, i), Literal)

(***************************************************************************)
(* The scanner's descent (scan_once, JSONArray, JSONObject), with its call *)
(* stack explicit: `open` holds the arrays and objects being read,         *)
(* innermost last.  phase "value": a value is due at pos; phase "after":   *)
(* the value val ended at pos and goes to the innermost open container.    *)
(***************************************************************************)
JsonDue(pos, open) == [phase |-> "value", pos |-> pos, val |-> <<>>, open |-> open, msg |-> <<>>]
JsonGot(val, pos, open) == [phase |-> "after", pos |-> pos, val |-> val, open |-> open, msg |-> <<>>]
JsonStop(msg, pos) == [phase |-> "fail", pos |-> pos, val |-> <<>>, open |-> <<>>, msg |-> msg]
JsonEnd(val, pos) == [phase |-> "done", pos |-> pos, val |-> val, open |-> <<>>, msg |-> <<>>]
JsonOpen(kind, items, key) == [kind |-> kind, items |-> items, key |-> key]

\* A string, a literal or a number was scanned: r is JsonOk or JsonFail.
JsonScanned(r, open) == IF r.ok THEN JsonGot(r.val, r.end, open) ELSE JsonStop(r.msg, r.pos)

\* JSONObject has read a key and its colon: the key's value is due.
JsonKeyRead(key, open, pairs) ==
    IF ~key.ok THEN JsonStop(key.msg, key.pos)
    ELSE JsonDue(key.end, Append(open, JsonOpen("obj", pairs, key.val)))

\* scan_once: a value is due at c.pos.
JsonStepValue(t, c) ==
    LET \* JSONObject after "{": "}" or the first key at `brace`
        ObjectStart(brace) ==
            IF At(t, brace) = 125 /\ At(t, c.pos + 1) # 34
            THEN JsonGot(JsonEmptyObject, brace + 1, c.open)
            ELSE IF At(t, brace) # 34 THEN JsonStop(pytxt.expectingName, brace)
            ELSE JsonKeyRead(JsonKey(t, brace + 1), c.open, <<>>)
        \* JSONArray after "[": "]" or the first item at `bracket`
        ArrayStart(bracket) ==
            IF At(t, bracket) = 93 THEN JsonGot(JsonValue("arr", <<>>), bracket + 1, c.open)
            ELSE JsonDue(bracket, Append(c.open, JsonOpen("arr", <<>>, <<>>)))
    IN  IF At(t, c.pos) = 34 THEN JsonScanned(JsonScanString(t, c.pos, c.pos + 1, <<>>), c.open)
        ELSE IF At(t, c.pos) = 123
        THEN ObjectStart(IF At(t, c.pos + 1) = 34 THEN c.pos + 1 ELSE JsonSkipWs(t, c.pos + 1))
        ELSE IF At(t, c.pos) = 91 THEN ArrayStart(JsonSkipWs(t, c.pos + 1))
        ELSE JsonScanned(JsonScalar(t, c.pos), c.open)

\* The value c.val ended at c.pos: it goes to the innermost open container.
JsonStepAfter(t, c) ==
    LET \* JSONArray after an item: "]" or "," at e
        ArrayNext(outer, items, e) ==
            IF At(t, e) = 93 THEN JsonGot(JsonValue("arr", items), e + 1, outer)
            ELSE IF At(t, e) # 44 THEN JsonStop(pytxt.expectingComma, e)
            ELSE JsonDue(JsonSkipWs(t, e + 1), Append(outer, JsonOpen("arr", items, <<>>)))
        \* JSONObject after a pair: "}" or "," at e, and after "," the next key at `more`
        ObjectKey(outer, pairs, more) ==
            IF At(t, more) # 34 THEN JsonStop(pytxt.expectingName, more)
            ELSE JsonKeyRead(JsonKey(t, more + 1), outer, pairs)
        ObjectNext(outer, pairs, e) ==
            IF At(t, e) = 125 THEN JsonGot(JsonValue("obj", pairs), e + 1, outer)
            ELSE IF At(t, e) # 44 THEN JsonStop(pytxt.expectingComma, e)
            ELSE ObjectKey(outer, pairs, JsonSkipWs(t, e + 1))
        Deliver(outer, inner, e) ==
            IF inner.kind = "arr" THEN ArrayNext(outer, Append(inner.items, c.val), e)
            ELSE ObjectNext(outer, DictSet(inner.items, inner.key, c.val), e)
    IN  IF c.open = <<>> THEN JsonEnd(c.val, c.pos)
        ELSE Deliver(SubSeq(c.open, 1, Len(c.open) - 1), c.open[Len(c.open)],
                     JsonSkipWs(t, c.pos))

RECURSIVE JsonRun(_, _)
JsonRun(t, c) ==
    IF c.phase = "value" THEN JsonRun(t, JsonStepValue(t, c))
    ELSE IF c.phase = "after" THEN JsonRun(t, JsonStepAfter(t, c))
    ELSE c

\* raw_decode: the value that starts at i: JsonOk or JsonFail.
JsonScanOnce(t, i) ==
    LET Outcome(c) == IF c.phase = "done" THEN JsonOk(c.val, c.pos) ELSE JsonFail(c.msg, c.pos)
    IN  Outcome(JsonRun(t, JsonDue(i, <<>>)))

\* str(JSONDecodeError(msg, doc, pos))
JsonErrorMessage(t, msg, pos) ==
    LET newlines == {k \in 0..(pos - 1) : At(t, k) = 10}
        lastNewline == CHOOSE k \in newlines : \A j \in newlines : j <= k
        lineno == Cardinality(newlines) + 1
        colno == IF newlines = {} THEN pos + 1 ELSE pos - lastNewline
    IN  msg \o pytxt.line \o Digits(lineno) \o pytxt.column \o Digits(colno)
        \o pytxt.char \o Digits(pos) \o pytxt.paren

\* json.loads(t): [ok, val] or [ok, err].  After the value only whitespace may follow.
JsonLoads(t) ==
    LET Error(msg, pos) ==
            [ok |-> FALSE, err |-> LibExc("JSONDecodeError", JsonErrorMessage(t, msg, pos))]
        Decode(r) ==
            IF ~r.ok THEN Error(r.msg, r.pos)
            ELSE IF JsonSkipWs(t, r.end) # Len(t)
            THEN Error(pytxt.extraData, JsonSkipWs(t, r.end))
            ELSE [ok |-> TRUE, val |-> r.val]
    IN  IF At(t, 0) = 65279 THEN Error(pytxt.bom, 0)
        ELSE Decode(JsonScanOnce(t, JsonSkipWs(t, 0)))

(***************************************************************************)
(* The inputs and the environment of the command channel.                  *)
(***************************************************************************)
MaxCmds == 3        \* the longest command sequence handed to dispatch_many and batch
MaxItems == 1       \* the most items of an array or object in a JSON body the peer sends
RecvSize == 4096    \* sock.recv(4096)

cmdText ==
    [ \* "version"
      version |-> <<118, 101, 114, 115, 105, 111, 110>>,
      \* "é": two bytes on the wire
      accent |-> <<233>>,
      \* "\ud800": cannot be encoded
      surrogate |-> <<55296>>,
      \* "pin"
      pin |-> <<112, 105, 110>>,
      \* "exec Unknown"
      execUnknown |-> <<101, 120, 101, 99, 32, 85, 110, 107, 110, 111, 119, 110>>,
      \* "clients"
      clients |-> <<99, 108, 105, 101, 110, 116, 115>>,
      \* "activewindow"
      activeWindow |-> <<97, 99, 116, 105, 118, 101, 119, 105, 110, 100, 111, 119>> ]

\* The commands the caller hands to send, to send_json and to the dispatch family.
SendCommands == {cmdText.version, cmdText.accent, cmdText.surrogate}
JsonCommands == {cmdText.clients, cmdText.activeWindow}
DispatchCommands == {cmdText.pin, cmdText.execUnknown}
CommandLists == UNION {[1..n -> DispatchCommands] : n \in 0..MaxCmds}

\* str(e) of the OSError a failed connect, sendall or recv raises.
ConnectionRefusedError == LibExc("ConnectionRefusedError", pytxt.connectionRefused)
BrokenPipeError == LibExc("BrokenPipeError", pytxt.brokenPipe)
ConnectionResetError == LibExc("ConnectionResetError", pytxt.connectionReset)

\* The text of a JSON value, the way the peer writes one (json.dumps's layout).
RECURSIVE JsonDumps(_)
RECURSIVE JsonDumpsItems(_)
RECURSIVE JsonDumpsPairs(_)
JsonDumpsItems(items) ==
    IF items = <<>> THEN <<>>
    ELSE IF Len(items) = 1 THEN JsonDumps(items[1])
    ELSE JsonDumps(items[1]) \o <<44, 32>> \o JsonDumpsItems(Tail(items))
JsonDumpsPairs(pairs) ==
    LET one == <<34>> \o pairs[1][1] \o <<34, 58, 32>> \o JsonDumps(pairs[1][2])
    IN  IF pairs = <<>> THEN <<>>
        ELSE IF Len(pairs) = 1 THEN one
        ELSE one \o <<44, 32>> \o JsonDumpsPairs(Tail(pairs))
JsonDumps(v) ==
    CASE v.t = "null" -> pytxt.null
      [] v.t = "bool" -> IF v.v = <<1>> THEN pytxt.true ELSE pytxt.false
      [] v.t = "int" -> IF v.v[1] < 0 THEN <<45>> \o Digits(0 - v.v[1]) ELSE Digits(v.v[1])
      [] v.t = "str" -> <<34>> \o v.v \o <<34>>
      [] v.t = "arr" -> <<91>> \o JsonDumpsItems(v.v) \o <<93>>
      [] v.t = "obj" -> <<123>> \o JsonDumpsPairs(v.v) \o <<125>>

\* The JSON values the peer answers a query with.
JsonAtoms ==
    {JsonValue("null", <<>>), JsonValue("bool", <<1>>), JsonValue("int", <<10>>),
     JsonValue("str", <<97>>)}
JsonNested ==
    {JsonValue("arr", <<JsonValue("obj", <<<<<<97>>, JsonValue("arr", <<JsonValue("int", <<0>>)>>)>>>>)>>)}
JsonValues ==
    LET keys == {<<97>>, <<98>>}
        arrays ==
            {JsonValue("arr", items) : items \in UNION {[1..n -> JsonAtoms] : n \in 0..MaxItems}}
        objects ==
            {JsonValue("obj", pairs) :
                pairs \in {ps \in UNION {[1..n -> keys \X (JsonAtoms \cup {JsonValue("arr", <<>>)})]
                                            : n \in 0..MaxItems} :
                              \A i, j \in 1..Len(ps) : i # j => ps[i][1] # ps[j][1]}}
    IN  JsonAtoms \cup arrays \cup objects \cup JsonNested

\* Whitespace the peer may put around a response body.
PadAny == {<<>>, <<32>>, <<10>>, <<194, 160>>}    \* none, " ", "\n", U+00A0 NO-BREAK SPACE

\* Responses to a raw command, as bytes.
RawResponses ==
    LET bodies ==
            {<<>>,
             <<111,107>>,                               \* "ok"
             txt.unknown,                               \* "unknown"
             txt.unknown \o <<32,114>>,                 \* "unknown r"
             <<85,110,107,110,111,119,110>>,            \* "Unknown"
             <<117,110,107,110,111,119>>,               \* "unknow"
             <<97,32>> \o txt.unknown,                  \* "a unknown"
             <<111,32,107>>,                            \* "o k"
             <<195,169>>,                               \* "é"
             <<195>>,                                   \* a sequence cut short
             <<111,255>>}                               \* "o" and a byte that starts no sequence
    IN  {pre \o body \o post : pre \in PadAny, body \in bodies, post \in PadAny}

\* Responses to a "j/" query: JSON texts, and texts that are no JSON.
JsonResponses ==
    LET broken ==
            {<<>>,
             <<123,34,97,34>>,                          \* {"a"
             <<91,49,44,93>>,                           \* [1,]
             <<123,125,32,123,125>>,                    \* {} {}
             <<91,194,160,93>>,                         \* [ U+00A0 ]
             <<34,195,169,34>>,                         \* "é"
             <<123,34,97,34,58,49,44,34,97,34,58,50,125>>,   \* {"a":1,"a":2}
             <<91,10,49,10,93>>,                        \* [ 1 ] over three lines
             txt.unknown,                               \* "unknown"
             <<255>>}
    IN  {pre \o body \o post :
            pre \in {<<>>, <<10>>}, post \in {<<>>, <<10>>, <<194, 160>>},
            body \in {Utf8EncodeAll(JsonDumps(v)) : v \in JsonValues} \cup broken}

\* Responses to a dispatch request.
DispatchResponses ==
    {<<111,107>>,                               \* "ok"
     txt.unknown,                                \* "unknown"
     <<85,110,107,110>>,                        \* "Unkn"
     <<255>>}

\* Answers of a peer that words its rejection in one casing or another.
CasedResponses ==
    {txt.unknown \o <<32, 114>>,                       \* "unknown r"
     <<85, 110, 107, 110, 111, 119, 110, 32, 114>>,    \* "Unknown r"
     <<32, 85, 78, 75, 78, 79, 87, 78, 10>>}           \* " UNKNOWN\n"

\* What the peer may answer to a request.
PeerResponses(request) ==
    IF StartsWith(request, txt.dispatch) THEN DispatchResponses
    ELSE IF StartsWith(request, txt.jsonPrefix) THEN JsonResponses
    ELSE RawResponses

(***************************************************************************)
(* The command channel: HyprlandIPC.send and the query layer above it.     *)
(* One caller runs one top-level call at a time; each function call is a   *)
(* frame of `stack`, and a frame that ends hands `ret` to the one below.   *)
(***************************************************************************)
PyStr(text) == JsonValue("str", text)
PyNone == JsonValue("None", <<>>)

Ret(kind, val) == [kind |-> kind, val |-> val]
NoRet == Ret("none", <<>>)
Returned(v) == Ret("value", v)
Raised(e) == Ret("raise", e)

\* An activation that would start with what the call before it had received.
FrameWithBuffer(fn, arg) ==
    [fn |-> fn, pc |-> "start", arg |-> arg, i |-> 1, sock |-> 0,
     payload |-> <<>>, response |-> IF conns = <<>> THEN <<>> ELSE conns[Len(conns)].sent]

Frame(fn, arg) ==
    [fn |-> fn, pc |-> "start", arg |-> arg, i |-> 1, sock |-> 0,
     payload |-> <<>>, response |-> <<>>]

\* socket.socket(AF_UNIX, SOCK_STREAM): a connection of the caller that runs, with what
\* went over it.
NewConn ==
    [state |-> "open", owner |-> me, wrote |-> FALSE, request |-> <<>>, script |-> <<>>,
     inbox |-> <<>>, sent |-> <<>>, peerClosed |-> FALSE, fault |-> "none"]

\* An exit that would close the socket on the success path alone.
CloseConnOnSuccess(c, fault) ==
    IF fault = "none" THEN [c EXCEPT !.state = "closed", !.inbox = <<>>, !.script = <<>>]
    ELSE [c EXCEPT !.fault = fault]

\* The with-block's exit: the socket is closed; `fault` records the call that failed.
CloseConn(c, fault) ==
    [c EXCEPT !.state = "closed", !.fault = fault, !.inbox = <<>>, !.script = <<>>]

\* A parse error that would not carry the command.
SendJsonInvalidUnnamed(command, e) ==
    Exc("HyprlandIPCError", "send_json.decode", <<>>, <<>>, <<e>>)

\* A handler that would let the underlying exception through as it is.
SendWrapBare(command, e) == e

\* The HyprlandIPCError of each raise site.
SendRejected(decoded) == Exc("HyprlandIPCError", "send.rejected", <<>>, decoded, <<>>)
SendWrap(command, e) == Exc("HyprlandIPCError", "send", command, <<>>, <<e>>)
SendJsonInvalid(command, e) == Exc("HyprlandIPCError", "send_json.decode", command, <<>>, <<e>>)
DispatchWrap(command, e) == Exc("HyprlandIPCError", "dispatch", command, <<>>, <<e>>)
DispatchManyWrap(cmd, e) == Exc("HyprlandIPCError", "dispatch_many", cmd, <<>>, <<e>>)
\* A handler that would let what ended the stream through as it is.
EventsWrapBare(e) == e

EventsWrap(e) == Exc("HyprlandIPCError", "events", <<>>, <<>>, <<e>>)

\* str(e): the message each raise site formats.
RECURSIVE Str(_)
Str(e) ==
    CASE e.site = "lib" -> e.detail
      [] e.site = "send.rejected" -> txt.returnedError \o e.detail
      [] e.site = "send" -> txt.sendFailed \o e.command \o txt.quoteColon \o Str(e.cause[1])
      [] e.site = "send_json.decode" ->
            txt.invalidJson \o e.command \o txt.quoteColon \o Str(e.cause[1])
      [] e.site = "send_json" -> txt.jsonFailed \o e.command \o txt.quoteColon \o e.detail \o <<32>>
      [] e.site = "dispatch" -> txt.dispatchFailed \o e.command \o txt.quoteColon \o Str(e.cause[1])
      [] e.site = "dispatch_many" ->
            txt.dispatchCommandFailed \o e.command \o txt.quoteColon \o Str(e.cause[1])
      [] e.site = "events" -> txt.eventsFailed \o Str(e.cause[1])
      [] e.site = "from_env.missing" -> txt.mustRun \o e.detail \o <<41>>
      [] e.site = "from_env.sockets" -> txt.socketsNotFound

\* send_json's last handler: the message embeds str(e), and no cause is attached.
SendJsonOther(command, e) == Exc("HyprlandIPCError", "send_json", command, Str(e), <<>>)

Top == stack[Len(stack)]
Running(fn, pc) == stack # <<>> /\ Top.fn = fn /\ Top.pc = pc
SetTop(f) == [stack EXCEPT ![Len(stack)] = f]
Pop == SubSeq(stack, 1, Len(stack) - 1)
\* A send that would use the socket the process made last, whichever caller made it.
curLatest == Len(conns)

\* `sock`, a local of the running send: the socket this call made.
cur == Top.sock
Idle == stack = <<>> /\ ret.kind = "none"
Done == stack = <<>> /\ ret.kind # "none"

\* The running frame calls send(command): a frame for it goes on the stack.
CallSendFrom(pc, command) ==
    /\ stack' = Append(SetTop([Top EXCEPT !.pc = pc]), Frame("send", command))
    /\ calls' = Append(calls, command)
    /\ ret' = NoRet

\* The running frame ends: with a value, or with an exception that leaves it.
Return(v) == stack' = Pop /\ ret' = Returned(v)
Raise(e) == stack' = Pop /\ ret' = Raised(e)

\* The caller starts a top-level call.
Begin(op, arg) ==
    /\ Idle
    /\ top' = [op |-> op, arg |-> arg]
    /\ stack' = <<Frame(op, arg)>>
    /\ UNCHANGED <<ret, conns>>
    /\ UNCHANGED evVars
    /\ UNCHANGED hostVars

CallSend ==
    \E command \in SendCommands : Begin("send", command) /\ calls' = <<command>>

CallSendJson ==
    \E command \in JsonCommands : Begin("send_json", command) /\ calls' = calls

CallDispatch ==
    \E command \in DispatchCommands : Begin("dispatch", command) /\ calls' = calls

CallDispatchMany ==
    \E commands \in CommandLists : Begin("dispatch_many", commands) /\ calls' = calls

CallBatch ==
    \E commands \in CommandLists : Begin("batch", commands) /\ calls' = calls

\* The caller has the outcome of its call; the client keeps nothing of it.
Collect ==
    /\ Done
    /\ ret' = NoRet
    /\ conns' = <<>>
    /\ calls' = <<>>
    /\ top' = [op |-> "none", arg |-> <<>>]
    /\ UNCHANGED stack
    /\ UNCHANGED evVars
    /\ UNCHANGED hostVars

----------------------------------------------------------------------------
\* send(), lines 112-136

\* A read loop that would take a short read for the end of the response.
RecvLoopEndsOnShortRead(chunk) == Len(chunk) < RecvSize

\* A test that would find the word anywhere in the response.
IsRejectionAnywhere(decoded) == Contains(decoded, txt.unknown)

\* Whether the read loop ends on this chunk (`if not (chunk := sock.recv(4096)): break`).
RecvLoopEnds(chunk) == chunk = <<>>

\* A test that would take the word in any casing for the rejection.
IsRejectionAnyCase(decoded) == StartsWith(Lower(decoded), txt.unknown)

\* Whether the decoded response is the peer's rejection (`decoded.startswith("unknown")`).
IsRejection(decoded) == StartsWith(decoded, txt.unknown)

\* The command is encoded, the socket created and connected.
SendConnect ==
    /\ Running("send", "start")
    /\ LET enc == Utf8Encode(Top.arg)
       IN  IF enc.ok
           THEN /\ conns' = Append(conns, NewConn)
                /\ stack' = SetTop([Top EXCEPT !.pc = "sendall", !.payload = enc.bytes,
                                               !.sock = Len(conns) + 1])
                /\ ret' = ret
           ELSE /\ Raise(SendWrap(Top.arg, enc.err))
                /\ conns' = conns
    /\ UNCHANGED <<calls, top>>
    /\ UNCHANGED evVars
    /\ UNCHANGED hostVars

\* sock.connect() fails: nobody listens on the command socket.
SendConnectFail ==
    /\ Running("send", "start")
    /\ Utf8Encode(Top.arg).ok
    /\ conns' = Append(conns, CloseConn(NewConn, "connect"))
    /\ Raise(SendWrap(Top.arg, ConnectionRefusedError))
    /\ UNCHANGED <<calls, top>>
    /\ UNCHANGED evVars
    /\ UNCHANGED hostVars

\* sock.sendall(payload): the request is on the wire, and the peer settles on its answer.
SendAll ==
    /\ Running("send", "sendall")
    /\ \E answer \in PeerResponses(Top.payload) :
          conns' = [conns EXCEPT ![cur] =
                       [@ EXCEPT !.wrote = TRUE, !.request = Top.payload, !.script = answer]]
    /\ stack' = SetTop([Top EXCEPT !.pc = "recv"])
    /\ UNCHANGED <<ret, calls, top>>
    /\ UNCHANGED evVars
    /\ UNCHANGED hostVars

\* sock.sendall(payload) to a peer whose state does not change: a request it has answered
\* before it answers the way it did then.
SendAllUnchangedPeer ==
    /\ Running("send", "sendall")
    /\ \E answer \in PeerResponses(Top.payload) :
          /\ \A b \in DOMAIN conns :
                (b # cur /\ conns[b].wrote /\ conns[b].request = Top.payload) =>
                    IF conns[b].peerClosed THEN answer = conns[b].sent
                    ELSE StartsWith(answer, conns[b].sent)
          /\ conns' = [conns EXCEPT ![cur] =
                          [@ EXCEPT !.wrote = TRUE, !.request = Top.payload, !.script = answer]]
    /\ stack' = SetTop([Top EXCEPT !.pc = "recv"])
    /\ UNCHANGED <<ret, calls, top>>
    /\ UNCHANGED evVars
    /\ UNCHANGED hostVars

\* sock.sendall(payload) to a peer that rejects, in one casing or another.
SendAllCased ==
    /\ Running("send", "sendall")
    /\ \E answer \in CasedResponses :
          conns' = [conns EXCEPT ![cur] =
                       [@ EXCEPT !.wrote = TRUE, !.request = Top.payload, !.script = answer]]
    /\ stack' = SetTop([Top EXCEPT !.pc = "recv"])
    /\ UNCHANGED <<ret, calls, top>>
    /\ UNCHANGED evVars
    /\ UNCHANGED hostVars

\* sock.sendall() fails.
SendAllFail ==
    /\ Running("send", "sendall")
    /\ conns' = [conns EXCEPT ![cur] = CloseConn(@, "sendall")]
    /\ Raise(SendWrap(Top.arg, BrokenPipeError))
    /\ UNCHANGED <<calls, top>>
    /\ UNCHANGED evVars
    /\ UNCHANGED hostVars

\* The peer writes the next k bytes of its answer on one of the connections it serves.
PeerSend ==
    /\ \E c \in DOMAIN conns :
          /\ conns[c].state = "open" /\ conns[c].wrote
          /\ \E k \in 1..Len(conns[c].script) :
                conns' = [conns EXCEPT ![c] =
                             [@ EXCEPT !.inbox = @ \o SubSeq(conns[c].script, 1, k),
                                       !.sent = @ \o SubSeq(conns[c].script, 1, k),
                                       !.script = SubSeq(@, k + 1, Len(@))]]
    /\ UNCHANGED <<stack, ret, calls, top>>
    /\ UNCHANGED evVars
    /\ UNCHANGED hostVars

\* The peer has written its whole answer and closes the connection.
PeerClose ==
    /\ \E c \in DOMAIN conns :
          /\ conns[c].state = "open" /\ conns[c].wrote
          /\ conns[c].script = <<>> /\ ~conns[c].peerClosed
          /\ conns' = [conns EXCEPT ![c] = [@ EXCEPT !.peerClosed = TRUE]]
    /\ UNCHANGED <<stack, ret, calls, top>>
    /\ UNCHANGED evVars
    /\ UNCHANGED hostVars

\* One turn of the read loop: recv blocks until bytes are there or the peer has closed.
SendRecv ==
    /\ Running("send", "recv")
    /\ conns[cur].inbox # <<>> \/ conns[cur].peerClosed
    /\ LET inbox == conns[cur].inbox
           n == IF Len(inbox) < RecvSize THEN Len(inbox) ELSE RecvSize
           chunk == SubSeq(inbox, 1, n)
       IN  IF RecvLoopEnds(chunk)
           THEN /\ conns' = [conns EXCEPT ![cur] = CloseConn(@, "none")]
                /\ stack' = SetTop([Top EXCEPT !.pc = "decode"])
           ELSE /\ conns' = [conns EXCEPT ![cur] =
                                [@ EXCEPT !.inbox = SubSeq(inbox, n + 1, Len(inbox))]]
                /\ stack' = SetTop([Top EXCEPT !.response = @ \o chunk])
    /\ UNCHANGED <<ret, calls, top>>
    /\ UNCHANGED evVars
    /\ UNCHANGED hostVars

\* sock.recv() fails.
SendRecvFail ==
    /\ Running("send", "recv")
    /\ conns' = [conns EXCEPT ![cur] = CloseConn(@, "recv")]
    /\ Raise(SendWrap(Top.arg, ConnectionResetError))
    /\ UNCHANGED <<calls, top>>
    /\ UNCHANGED evVars
    /\ UNCHANGED hostVars

\* The response is decoded and trimmed; a rejection is raised, and wrapped like every failure.
SendDecode ==
    /\ Running("send", "decode")
    /\ LET d == Utf8Decode(Top.response)
           decoded == Strip(d.text)
       IN  IF ~d.ok THEN Raise(SendWrap(Top.arg, d.err))
           ELSE IF IsRejection(decoded) THEN Raise(SendWrap(Top.arg, SendRejected(decoded)))
           ELSE Return(PyStr(decoded))
    /\ UNCHANGED <<conns, calls, top>>
    /\ UNCHANGED evVars
    /\ UNCHANGED hostVars

----------------------------------------------------------------------------
\* send_json(), lines 151-163

SendJsonRequest(command) == txt.jsonPrefix \o command

\* A parse that would hand the empty text to json.loads as well.
SendJsonParseAlways(resp) == JsonLoads(resp)

\* `json.loads(resp) if resp else {}`: [ok, val] or [ok, err]
SendJsonParse(resp) ==
    IF resp # <<>> THEN JsonLoads(resp) ELSE [ok |-> TRUE, val |-> JsonEmptyObject]

SendJsonCall ==
    /\ Running("send_json", "start")
    /\ CallSendFrom("after", SendJsonRequest(Top.arg))
    /\ UNCHANGED <<conns, top>>
    /\ UNCHANGED evVars
    /\ UNCHANGED hostVars

\* json.loads is back: its value is returned, its error wrapped.
SendJsonParsed(parsed) ==
    IF parsed.ok THEN Return(parsed.val) ELSE Raise(SendJsonInvalid(Top.arg, parsed.err))

\* send() is back: the response is parsed; the three handlers in their order.
SendJsonAfter ==
    /\ Running("send_json", "after")
    /\ ret.kind # "none"
    /\ IF ret.kind = "value"
       THEN SendJsonParsed(SendJsonParse(ret.val.v))
       ELSE IF ret.val.type = "HyprlandIPCError" THEN Raise(ret.val)
       ELSE Raise(SendJsonOther(Top.arg, ret.val))
    /\ UNCHANGED <<conns, calls, top>>
    /\ UNCHANGED evVars
    /\ UNCHANGED hostVars

----------------------------------------------------------------------------
\* dispatch(), lines 175-178

DispatchRequest(command) == txt.dispatch \o command

DispatchCall ==
    /\ Running("dispatch", "start")
    /\ CallSendFrom("after", DispatchRequest(Top.arg))
    /\ UNCHANGED <<conns, top>>
    /\ UNCHANGED evVars
    /\ UNCHANGED hostVars

DispatchAfter ==
    /\ Running("dispatch", "after")
    /\ ret.kind # "none"
    /\ IF ret.kind = "value" THEN Return(PyNone)
       ELSE IF ret.val.type = "HyprlandIPCError" THEN Raise(DispatchWrap(Top.arg, ret.val))
       ELSE Raise(ret.val)
    /\ UNCHANGED <<conns, calls, top>>
    /\ UNCHANGED evVars
    /\ UNCHANGED hostVars

----------------------------------------------------------------------------
\* dispatch_many(), lines 190-196

\* The loop head: the next command is dispatched, or the sequence is exhausted.
DispatchManyStep ==
    /\ Running("dispatch_many", "start")
    /\ IF Top.i <= Len(Top.arg)
       THEN /\ stack' = Append(SetTop([Top EXCEPT !.pc = "after"]),
                               Frame("dispatch", Top.arg[Top.i]))
            /\ ret' = NoRet
       ELSE Return(PyNone)
    /\ UNCHANGED <<conns, calls, top>>
    /\ UNCHANGED evVars
    /\ UNCHANGED hostVars

\* A loop that would go on to the next command after a failure.
DispatchManyAfterKeepGoing ==
    /\ Running("dispatch_many", "after")
    /\ ret.kind # "none"
    /\ stack' = SetTop([Top EXCEPT !.pc = "start", !.i = @ + 1])
    /\ ret' = NoRet
    /\ UNCHANGED <<conns, calls, top>>
    /\ UNCHANGED evVars
    /\ UNCHANGED hostVars

\* dispatch(cmd) is back: on to the next command, or its failure leaves the loop.
DispatchManyAfter ==
    /\ Running("dispatch_many", "after")
    /\ ret.kind # "none"
    /\ IF ret.kind = "value"
       THEN /\ stack' = SetTop([Top EXCEPT !.pc = "start", !.i = @ + 1])
            /\ ret' = NoRet
       ELSE IF ret.val.type = "HyprlandIPCError"
       THEN Raise(DispatchManyWrap(Top.arg[Top.i], ret.val))
       ELSE Raise(ret.val)
    /\ UNCHANGED <<conns, calls, top>>
    /\ UNCHANGED evVars
    /\ UNCHANGED hostVars

----------------------------------------------------------------------------
\* batch(), lines 210-219

\* A joined request that would separate the commands with ";" alone.
BatchRequestTight(commands) == txt.dispatch \o Join(commands, <<59>>)

BatchRequest(commands) == txt.dispatch \o Join(commands, txt.join)

\* A test that would look for the peer's rejection and nothing else.
BatchFallsBackOnRejection(e) == e.cause # <<>> /\ e.cause[1].site = "send.rejected"

\* `"unknown" in str(e).lower()`
BatchFallsBack(e) == Contains(Lower(Str(e)), txt.unknown)

BatchCall ==
    /\ Running("batch", "start")
    /\ CallSendFrom("after", BatchRequest(Top.arg))
    /\ UNCHANGED <<conns, top>>
    /\ UNCHANGED evVars
    /\ UNCHANGED hostVars

\* The joined request is back: done, or its error is tested for the fallback.
BatchAfter ==
    /\ Running("batch", "after")
    /\ ret.kind # "none"
    /\ IF ret.kind = "value" THEN Return(PyNone)
       ELSE IF ret.val.type = "HyprlandIPCError" /\ BatchFallsBack(ret.val)
       THEN /\ stack' = Append(SetTop([Top EXCEPT !.pc = "fallback"]),
                               Frame("dispatch_many", Top.arg))
            /\ ret' = NoRet
       ELSE Raise(ret.val)
    /\ UNCHANGED <<conns, calls, top>>
    /\ UNCHANGED evVars
    /\ UNCHANGED hostVars

\* A fallback that would start over with the joined request when a command fails.
BatchFallbackDoneRetry ==
    /\ Running("batch", "fallback")
    /\ ret.kind # "none"
    /\ IF ret.kind = "value" THEN Return(PyNone)
       ELSE stack' = SetTop([Top EXCEPT !.pc = "start"]) /\ ret' = NoRet
    /\ UNCHANGED <<conns, calls, top>>
    /\ UNCHANGED evVars
    /\ UNCHANGED hostVars

\* dispatch_many() is back from the fallback: its outcome is batch's.
BatchFallbackDone ==
    /\ Running("batch", "fallback")
    /\ ret.kind # "none"
    /\ IF ret.kind = "value" THEN Return(PyNone) ELSE Raise(ret.val)
    /\ UNCHANGED <<conns, calls, top>>
    /\ UNCHANGED evVars
    /\ UNCHANGED hostVars

----------------------------------------------------------------------------
(***************************************************************************)
(* The event stream: events() (lines 248-291), a generator.  Its body runs *)
(* when the consumer asks for the next Event.                              *)
(***************************************************************************)

\* The byte streams the peer has to send on the event socket.
EventStreams ==
    {
      <<97, 62, 62, 98, 10>>,    \* "a>>b\n": one event
      <<102, 62, 62, 98, 10, 122, 10, 113, 62, 62, 112, 10>>,    \* "f>>b\nz\nq>>p\n": a line without ">>" between two events
      <<97, 62, 62, 98, 62, 62, 99, 10>>,    \* "a>>b>>c\n": ">>" again in the payload
      <<122, 10, 97, 62, 62, 98, 10>>,    \* "z\na>>b\n": a line without ">>", then an event
      <<97, 62, 62, 98, 10, 99, 62>>,    \* "a>>b\nc>": an event, then the start of a line
      <<10, 10, 97, 62, 62, 10>>,    \* "\n\na>>\n": empty lines, then an empty payload
      <<255, 10, 97, 62, 62, 10>>    \* "\xff\na>>\n": a line that is not UTF-8, then an event
    }

Event(name, data) == [name |-> name, data |-> data]

\* bytes.partition(sep): what stands before the first sep, whether sep occurs, and what follows it.
Partition(s, sep) ==
    IF Contains(s, sep)
    THEN [head |-> SubSeq(s, 1, Find(s, sep, 1) - 1), found |-> TRUE,
          tail |-> SubSeq(s, Find(s, sep, 1) + Len(sep), Len(s))]
    ELSE [head |-> s, found |-> FALSE, tail |-> <<>>]

\* The lines `while b"\n" in buf` takes off a buffer, in order; what follows the last newline stays.
RECURSIVE CompleteLines(_)
CompleteLines(buf) ==
    IF Partition(buf, <<10>>).found
    THEN <<Partition(buf, <<10>>).head>> \o CompleteLines(Partition(buf, <<10>>).tail)
    ELSE <<>>

\* `cast` is imported under TYPE_CHECKING only (lines 21-24): at run time the name is unbound.
NameErrorCast ==
    LibExc("NameError",
           <<110, 97, 109, 101, 32, 39, 99, 97, 115, 116, 39, 32, 105, 115, 32, 110, 111,
             116, 32, 100, 101, 102, 105, 110, 101, 100>>)     \* "name 'cast' is not defined"

\* str(e) of the OSError a process gets that has no file descriptor left.
TooManyOpenFiles ==
    LibExc("OSError",
           <<91, 69, 114, 114, 110, 111, 32, 50, 52, 93, 32, 84, 111, 111, 32, 109, 97, 110,
             121, 32, 111, 112, 101, 110, 32, 102, 105, 108, 101, 115>>)   \* "[Errno 24] Too many open files"

NoGen == [pc |-> "none", sel |-> "none", buf |-> <<>>, exc |-> <<>>]
NoEvSock ==
    [state |-> "none", fd |-> 0, script |-> <<>>, inbox |-> <<>>, sent |-> <<>>,
     peerClosed |-> FALSE]

\* An exit that would leave the socket as it is.
EventsRaiseLeaving(e) ==
    /\ gen' = [gen EXCEPT !.pc = "raised", !.exc = <<EventsWrap(e)>>]
    /\ evsock' = evsock

\* An exception leaves the body: the `with` closes the socket, line 290 wraps the exception,
\* and the generator is finished.  The selector, if one was made, is never closed.
EventsRaise(e) ==
    /\ gen' = [gen EXCEPT !.pc = "raised", !.exc = <<EventsWrap(e)>>]
    /\ evsock' = [evsock EXCEPT !.state = "closed"]

\* ipc.events(): the generator object is made; nothing of the body has run.
EventsCall ==
    /\ gen.pc = "none"
    /\ gen' = [gen EXCEPT !.pc = "created"]
    /\ UNCHANGED <<evsock, evout>>
    /\ UNCHANGED cmdVars
    /\ UNCHANGED hostVars

\* The consumer gives up a generator it never pulled from: close() ends it, and the body
\* has not run.
EventsClose ==
    /\ gen.pc = "created" /\ stack = <<>>
    /\ gen' = [gen EXCEPT !.pc = "closed"]
    /\ UNCHANGED <<evsock, evout>>
    /\ UNCHANGED cmdVars
    /\ UNCHANGED hostVars

\* A body that would read the one socket the client's readers already have.
EventsNextShared ==
    /\ gen.pc = "created"
    /\ gen' = [gen EXCEPT !.pc = "connect"]
    /\ evsock' = [evsock EXCEPT !.state = "created", !.fd = 1]
    /\ UNCHANGED evout
    /\ UNCHANGED cmdVars
    /\ UNCHANGED hostVars

\* The consumer asks for the first Event: the body starts and makes its socket (line 261),
\* a new one on each call, under the lowest descriptor the process has free.
EventsNext ==
    /\ gen.pc = "created"
    /\ gen' = [gen EXCEPT !.pc = "connect"]
    /\ LET used == {others[t].evsock.fd :
                       t \in {u \in DOMAIN others :
                                 others[u].evsock.state \in {"created", "connected"}}}
       IN  evsock' = [evsock EXCEPT !.state = "created",
                         !.fd = CHOOSE n \in 1..(Cardinality(used) + 1) :
                                   n \notin used /\ \A m \in 1..(n - 1) : m \in used]
    /\ UNCHANGED evout
    /\ UNCHANGED cmdVars
    /\ UNCHANGED hostVars

\* connect, setblocking(False), the selector and its registration, the empty buffer
\* (lines 262-268).  The peer has some stream to send.
EventsConnect ==
    /\ gen.pc = "connect"
    /\ \E stream \in EventStreams :
          evsock' = [evsock EXCEPT !.state = "connected", !.script = stream]
    /\ gen' = [gen EXCEPT !.pc = "select", !.sel = "open", !.buf = <<>>]
    /\ UNCHANGED evout
    /\ UNCHANGED cmdVars
    /\ UNCHANGED hostVars

\* connect fails: nobody listens on the event socket.
EventsConnectFail ==
    /\ gen.pc = "connect"
    /\ EventsRaise(ConnectionRefusedError)
    /\ UNCHANGED evout
    /\ UNCHANGED cmdVars
    /\ UNCHANGED hostVars

\* connect succeeds, and selectors.DefaultSelector() (line 265) finds the process out of
\* descriptors: the OSError leaves the `with`, which closes the socket.
EventsSelectorFail ==
    /\ gen.pc = "connect"
    /\ EventsRaise(TooManyOpenFiles)
    /\ UNCHANGED evout
    /\ UNCHANGED cmdVars
    /\ UNCHANGED hostVars

\* The peer writes the next bytes of its stream; they arrive cut at any place.
EventsPeerSend ==
    /\ evsock.state = "connected"
    /\ ~evsock.peerClosed
    /\ \E k \in 1..Len(evsock.script) :
          evsock' = [evsock EXCEPT !.script = SubSeq(@, k + 1, Len(@)),
                                   !.inbox = @ \o SubSeq(evsock.script, 1, k),
                                   !.sent = @ \o SubSeq(evsock.script, 1, k)]
    /\ UNCHANGED <<gen, evout>>
    /\ UNCHANGED cmdVars
    /\ UNCHANGED hostVars

\* The peer closes its end, having sent what it has sent.
EventsPeerClose ==
    /\ evsock.state = "connected"
    /\ ~evsock.peerClosed
    /\ evsock' = [evsock EXCEPT !.peerClosed = TRUE, !.script = <<>>]
    /\ UNCHANGED <<gen, evout>>
    /\ UNCHANGED cmdVars
    /\ UNCHANGED hostVars

\* sel.select(timeout=0.01) with nothing to read (line 271): no key, `while True` goes round.
EventsSelectTimeout ==
    /\ gen.pc = "select"
    /\ evsock.inbox = <<>> /\ ~evsock.peerClosed
    /\ UNCHANGED evVars
    /\ UNCHANGED hostVars
    /\ UNCHANGED cmdVars
    /\ UNCHANGED hostVars

\* sel.select with bytes to read, or the end of the stream: the socket's key is returned.
EventsSelectReady ==
    /\ gen.pc = "select"
    /\ evsock.inbox # <<>> \/ evsock.peerClosed
    /\ gen' = [gen EXCEPT !.pc = "cast"]
    /\ UNCHANGED <<evsock, evout>>
    /\ UNCHANGED cmdVars
    /\ UNCHANGED hostVars

\* Line 272, `conn = cast(socket.socket, key.fileobj)`: the name `cast` is looked up and
\* is not there.  Line 272 stands outside the inner `try`, so lines 273-286 (recv, the
\* buffer, the framing, the yield) are never reached.
EventsCast ==
    /\ gen.pc = "cast"
    /\ EventsRaise(NameErrorCast)
    /\ UNCHANGED evout
    /\ UNCHANGED cmdVars
    /\ UNCHANGED hostVars

----------------------------------------------------------------------------
(***************************************************************************)
(* Several callers (threads) on one client.  The client object holds the   *)
(* two socket paths and nothing else (lines 58-59); all that a call works  *)
(* on is local to it.  One caller runs at a time and the interpreter may   *)
(* hand over to another between any two steps.                             *)
(***************************************************************************)
----------------------------------------------------------------------------
(***************************************************************************)
(* from_env() (lines 76-97): the client's paths from the environment.  A   *)
(* path is what pathlib keeps of it: whether it is absolute, and its       *)
(* components.                                                             *)
(***************************************************************************)

\* The process's surroundings: the two variables (None when unset), the working
\* directory /run, the symbolic link /l -> /run/u, and what there is where the two
\* sockets of the instance s1 belong under /run/u ("missing": nothing).
Os(xdg, sig, kind1, kind2) ==
    LET dir == <<<<114, 117, 110>>, <<117>>, txt.hypr, <<115, 49>>>>    \* run u hypr s1
        Kind(f) == IF f = Append(dir, txt.socketSock) THEN kind1 ELSE kind2
    IN  [environ |-> [xdg |-> xdg, sig |-> sig],
         cwd |-> <<<<114, 117, 110>>>>,
         links |-> [l \in {<<<<108>>>>} |-> <<<<114, 117, 110>>, <<117>>>>],
         files |-> [f \in {g \in {Append(dir, txt.socketSock), Append(dir, txt.socket2Sock)} :
                               Kind(g) # "missing"} |-> Kind(f)],
         probes |-> <<>>]

\* The session is set up, or torn down, before a call: the variables are set, set empty
\* or unset, and the socket files are there, or something else is, or nothing.
Host ==
    /\ Idle
    /\ \E xdg \in {PyNone, PyStr(<<>>),
                    PyStr(<<47, 114, 117, 110, 47, 117>>),          \* "/run/u"
                    PyStr(<<47, 114, 117, 110, 47, 117, 47>>),      \* "/run/u/"
                    PyStr(<<117>>),                                 \* "u", below the working directory
                    PyStr(<<47, 108>>),                             \* "/l", the link
                    PyStr(<<47, 116, 109, 112>>)},                  \* "/tmp", where no instance is
          sig \in {PyNone, PyStr(<<>>), PyStr(<<115, 49>>)},        \* "s1"
          kind1, kind2 \in {"missing", "socket", "file", "dir"} :
          os' = Os(xdg, sig, kind1, kind2)
    /\ UNCHANGED <<me, others>>
    /\ UNCHANGED cmdVars
    /\ UNCHANGED evVars

\* Path(text): the components between "/", without the empty ones and the "." ones.
RECURSIVE PathParts(_)
PathParts(text) ==
    IF text = <<>> THEN <<>>
    ELSE (IF Partition(text, <<47>>).head \in {<<>>, <<46>>} THEN <<>>
          ELSE <<Partition(text, <<47>>).head>>)
         \o PathParts(Partition(text, <<47>>).tail)
Path(text) == [abs |-> StartsWith(text, <<47>>), parts |-> PathParts(text)]

\* path / text
PathJoin(path, text) ==
    IF Path(text).abs THEN Path(text)
    ELSE [abs |-> path.abs, parts |-> path.parts \o Path(text).parts]

\* Path.resolve(): from the working directory when relative, ".." taken out, symbolic
\* links followed where they exist.  `done` is resolved, `rest` is still to walk.
RECURSIVE Resolve(_, _)
Resolve(done, rest) ==
    IF rest = <<>> THEN [abs |-> TRUE, parts |-> done]
    ELSE IF Head(rest) = <<46, 46>>
    THEN Resolve(SubSeq(done, 1, Len(done) - 1), Tail(rest))
    ELSE IF Append(done, Head(rest)) \in DOMAIN os.links
    THEN Resolve(<<>>, os.links[Append(done, Head(rest))] \o Tail(rest))
    ELSE Resolve(Append(done, Head(rest)), Tail(rest))

\* A list that would name the first missing variable alone.
MissingFirst(xdg, sig) ==
    IF xdg \in {PyNone, PyStr(<<>>)} THEN <<txt.xdgRuntimeDir>>
    ELSE IF sig \in {PyNone, PyStr(<<>>)} THEN <<txt.instanceSignature>>
    ELSE <<>>

\* `missing` (lines 80-84): `not value` holds for None and for the empty text.
Missing(xdg, sig) ==
    (IF xdg \in {PyNone, PyStr(<<>>)} THEN <<txt.xdgRuntimeDir>> ELSE <<>>)
    \o (IF sig \in {PyNone, PyStr(<<>>)} THEN <<txt.instanceSignature>> ELSE <<>>)

\* HyprlandIPC.from_env(): the two variables are read (lines 76-77).
FromEnvCall ==
    /\ Idle
    /\ top' = [op |-> "from_env", arg |-> <<os.environ.xdg, os.environ.sig>>]
    /\ stack' = <<Frame("from_env", <<os.environ.xdg, os.environ.sig>>)>>
    /\ os' = [os EXCEPT !.probes = <<>>]
    /\ UNCHANGED <<ret, conns, calls, me, others>>
    /\ UNCHANGED evVars

\* Lines 79-91: a missing variable is reported; otherwise the runtime directory is
\* resolved and the two paths are put together.
FromEnvPaths ==
    /\ Running("from_env", "start")
    /\ LET Socks(base) == <<PathJoin(base, txt.socketSock), PathJoin(base, txt.socket2Sock)>>
           Base(dir, sig) ==
               PathJoin(PathJoin(Resolve(<<>>, IF dir.abs THEN dir.parts
                                               ELSE os.cwd \o dir.parts), txt.hypr), sig)
       IN  IF Missing(Top.arg[1], Top.arg[2]) # <<>>
           THEN /\ Raise(Exc("HyprlandIPCError", "from_env.missing", <<>>,
                             Join(Missing(Top.arg[1], Top.arg[2]), <<44, 32>>), <<>>))
                /\ os' = os
           ELSE /\ stack' = SetTop([Top EXCEPT !.pc = "check",
                                       !.payload = Socks(Base(Path(Top.arg[1].v), Top.arg[2].v))])
                /\ ret' = ret
                /\ os' = [os EXCEPT !.probes = Append(@, <<"resolve", Path(Top.arg[1].v)>>)]
    /\ UNCHANGED <<conns, calls, top, me, others>>
    /\ UNCHANGED evVars

\* A test that would look at the command socket alone.
FromEnvCheckCommandSocket ==
    /\ Running("from_env", "check")
    /\ LET IsSocket(path) ==
               path.parts \in DOMAIN os.files /\ os.files[path.parts] = "socket"
       IN  /\ os' = [os EXCEPT !.probes = Append(@, <<"is_socket", Top.payload[1]>>)]
           /\ IF IsSocket(Top.payload[1])
              THEN Return(JsonValue("HyprlandIPC", Top.payload))
              ELSE Raise(Exc("HyprlandIPCError", "from_env.sockets", <<>>, <<>>, <<>>))
    /\ UNCHANGED <<conns, calls, top, me, others>>
    /\ UNCHANGED evVars

\* Lines 94-97: `not sock1.is_socket() or not sock2.is_socket()`, the second looked at
\* only when the first is a socket; then cls(sock1, sock2).
FromEnvCheck ==
    /\ Running("from_env", "check")
    /\ LET IsSocket(path) ==
               path.parts \in DOMAIN os.files /\ os.files[path.parts] = "socket"
       IN  /\ os' = [os EXCEPT !.probes =
                        @ \o (IF IsSocket(Top.payload[1])
                              THEN <<<<"is_socket", Top.payload[1]>>,
                                     <<"is_socket", Top.payload[2]>>>>
                              ELSE <<<<"is_socket", Top.payload[1]>>>>)]
           /\ IF IsSocket(Top.payload[1]) /\ IsSocket(Top.payload[2])
              THEN Return(JsonValue("HyprlandIPC", Top.payload))
              ELSE Raise(Exc("HyprlandIPCError", "from_env.sockets", <<>>, <<>>, <<>>))
    /\ UNCHANGED <<conns, calls, top, me, others>>
    /\ UNCHANGED evVars

\* listen_events(handler), lines 300-301: `self.events()` makes the generator and the
\* for statement pulls from it.
ListenEventsCall ==
    /\ Idle /\ gen.pc = "none"
    /\ top' = [op |-> "listen_events", arg |-> <<>>]
    /\ stack' = <<Frame("listen_events", <<>>)>>
    /\ gen' = [gen EXCEPT !.pc = "created"]
    /\ UNCHANGED <<ret, conns, calls, evsock, evout>>
    /\ UNCHANGED hostVars

\* The generator raised while the for statement pulled: the exception leaves listen_events.
ListenEventsRaise ==
    /\ Running("listen_events", "start") /\ gen.pc = "raised"
    /\ Raise(gen.exc[1])
    /\ UNCHANGED <<conns, calls, top>>
    /\ UNCHANGED evVars
    /\ UNCHANGED hostVars

(***************************************************************************)
(* The window switcher, hypr_window_switcher.py: main (lines 194-278) and  *)
(* what it calls.  A window is the dict send_json parsed, with the keys    *)
(* the switcher reads.  The three queries are taken by what they hand      *)
(* back (a parsed value, or the HyprlandIPCError of send_json); batch runs *)
(* as the client's batch, on top of main's frame.                          *)
(***************************************************************************)
swtxt ==
    [ address |-> <<97, 100, 100, 114, 101, 115, 115>>,                 \* "address"
      workspace |-> <<119, 111, 114, 107, 115, 112, 97, 99, 101>>,   \* "workspace"
      id |-> <<105, 100>>,                                          \* "id"
      fullscreen |-> <<102, 117, 108, 108, 115, 99, 114, 101, 101, 110>>,   \* "fullscreen"
      hidden |-> <<104, 105, 100, 100, 101, 110>>,                       \* "hidden"
      monitor |-> <<109, 111, 110, 105, 116, 111, 114>>,                \* "monitor"
      focusHistoryID |-> <<102, 111, 99, 117, 115, 72, 105, 115, 116, 111, 114, 121, 73, 68>>,   \* "focusHistoryID"
      \* "focuswindow address:"
      focusWindow |-> <<102, 111, 99, 117, 115, 119, 105, 110, 100, 111, 119, 32, 97, 100, 100, 114, 101, 115, 115, 58>>,
      \* "; fullscreen 0"
      fullscreenOff |-> <<59, 32, 102, 117, 108, 108, 115, 99, 114, 101, 101, 110, 32, 48>>,
      \* "movetoworkspace "
      moveToWorkspace |-> <<109, 111, 118, 101, 116, 111, 119, 111, 114, 107, 115, 112, 97, 99, 101, 32>>,
      \* ", address:"
      commaAddress |-> <<44, 32, 97, 100, 100, 114, 101, 115, 115, 58>>,
      none |-> <<78, 111, 110, 101>>,                                      \* "None"
      activeWorkspace |-> <<97, 99, 116, 105, 118, 101, 119, 111, 114, 107, 115, 112, 97, 99, 101>> ]   \* "activeworkspace"

PyInt(n) == JsonValue("int", <<n>>)
PyBool(b) == JsonValue("bool", IF b THEN <<1>> ELSE <<0>>)

\* d.get(key): the value under the key, None without it.
Get(d, key) ==
    LET at == {j \in 1..Len(d.v) : d.v[j][1] = key}
    IN  IF at = {} THEN PyNone ELSE d.v[CHOOSE j \in at : TRUE][2]

\* bool(v)
Truthy(v) ==
    CASE v.t = "None" -> FALSE
      [] v.t = "int" -> v.v # <<0>>
      [] v.t = "bool" -> v.v = <<1>>
      [] OTHER -> v.v # <<>>

\* f"{v}" of a str, an int or None
Format(v) ==
    CASE v.t = "str" -> v.v
      [] v.t = "int" -> Digits(v.v[1])
      [] OTHER -> swtxt.none

Workspace(id) == JsonValue("obj", << <<swtxt.id, id>> >>)
Window(address, workspace, fullscreen, hidden, focus) ==
    JsonValue("obj", << <<swtxt.address, address>>, <<swtxt.workspace, workspace>>,
                        <<swtxt.fullscreen, fullscreen>>, <<swtxt.hidden, PyBool(hidden)>>,
                        <<swtxt.monitor, PyInt(0)>>, <<swtxt.focusHistoryID, PyInt(focus)>> >>)

\* Addresses of windows, as the compositor writes them.
Address == [a |-> PyStr(<<48, 120, 49>>), b |-> PyStr(<<48, 120, 50>>), c |-> PyStr(<<48, 120, 51>>),
            d |-> PyStr(<<48, 120, 54>>), h |-> PyStr(<<48, 120, 52>>), i |-> PyStr(<<48, 120, 53>>)]

\* What j/clients may answer: no window, a hidden one alone, windows of two workspaces
\* out of focus order, two fullscreen windows on one workspace, and windows without
\* an address, without a workspace id, without a workspace.
ClientLists ==
    LET A == Window(Address.a, Workspace(PyInt(1)), PyInt(0), FALSE, 0)
        B == Window(Address.b, Workspace(PyInt(1)), PyInt(1), FALSE, 1)
        C == Window(Address.c, Workspace(PyInt(2)), PyInt(2), FALSE, 2)
        D == Window(Address.d, Workspace(PyInt(1)), PyBool(TRUE), FALSE, 3)
        H == Window(Address.h, Workspace(PyInt(1)), PyInt(1), TRUE, 3)
        N == Window(PyNone, Workspace(PyInt(1)), PyInt(1), FALSE, 1)
        I == Window(Address.i, Workspace(PyNone), PyInt(0), FALSE, 2)
        X == Window(Address.i, PyNone, PyInt(0), FALSE, 2)
    IN  {<<>>, <<H>>, <<C, A, B, H>>, <<D, B, A>>, <<A, N, I>>, <<A, X>>}

\* What a query hands back: send_json's value, or the error send raised.
QueryFails(command) == Raised(SendWrap(txt.jsonPrefix \o command, ConnectionRefusedError))
ClientsOutcomes ==
    {QueryFails(cmdText.clients)} \cup {Returned(JsonValue("arr", l)) : l \in ClientLists}
ActiveWindowOutcomes ==
    {QueryFails(cmdText.activeWindow), Returned(JsonEmptyObject),
     Returned(Window(Address.a, Workspace(PyInt(1)), PyInt(0), FALSE, 0))}
ActiveWorkspaceOutcomes ==
    {QueryFails(swtxt.activeWorkspace), Returned(JsonEmptyObject),
     Returned(Workspace(PyInt(1)))}

\* The `dispatches` of extra_dispatchers.toml, as get_extra_dispatches filters them.
ExtraDispatches == {<<>>, <<cmdText.pin, cmdText.execUnknown>>}

\* windows.sort(key=lambda w: w.get("focusHistoryID", 0)): stable, by ascending key
RECURSIVE SortByFocus(_)
SortByFocus(ws) ==
    IF ws = <<>> THEN <<>>
    ELSE LET Key(w) == IF Get(w, swtxt.focusHistoryID) = PyNone THEN 0
                       ELSE Get(w, swtxt.focusHistoryID).v[1]
             init == SortByFocus(SubSeq(ws, 1, Len(ws) - 1))
             last == ws[Len(ws)]
             k == Cardinality({j \in 1..Len(init) : Key(init[j]) <= Key(last)})
         IN  SubSeq(init, 1, k) \o <<last>> \o SubSeq(init, k + 1, Len(init))

\* get_windows (lines 97-110): none on an error; else the windows that are not hidden and
\* have a monitor, by focus history, the first one moved to the end.
GetWindowsVisible(w) == ~Truthy(Get(w, swtxt.hidden)) /\ Get(w, swtxt.monitor) # PyInt(-1)
GetWindows(clients) ==
    IF clients.kind = "raise" THEN <<>>
    ELSE LET windows == SortByFocus(SelectSeq(clients.val.v, GetWindowsVisible))
         IN  IF windows = <<>> THEN <<>> ELSE Tail(windows) \o <<Head(windows)>>

\* minify_fullscreen_cmds (lines 160-169)
RECURSIVE minify_fullscreen_cmds(_, _, _)
minify_fullscreen_cmds(windows, ws_id, exclude_addr) ==
    IF windows = <<>> THEN <<>>
    ELSE LET w == Head(windows)
             rest == minify_fullscreen_cmds(Tail(windows), ws_id, exclude_addr)
         IN  IF /\ Get(Get(w, swtxt.workspace), swtxt.id) = ws_id
                /\ Truthy(Get(w, swtxt.fullscreen))
                /\ Get(w, swtxt.address) # exclude_addr
             THEN <<swtxt.focusWindow \o Format(Get(w, swtxt.address)) \o swtxt.fullscreenOff>>
                  \o rest
             ELSE rest

\* A list that would focus the selected window before it clears the workspace.
IpcCmdsFocusFirst(minify_cmds, move, active_ws_id, selected_address, extra_dispatches) ==
    <<swtxt.focusWindow \o Format(selected_address)>>
    \o minify_cmds
    \o (IF move
        THEN <<swtxt.moveToWorkspace \o Format(active_ws_id) \o swtxt.commaAddress
               \o Format(selected_address)>>
        ELSE <<>>)
    \o extra_dispatches

\* ipc_cmds, lines 265-272
IpcCmds(minify_cmds, move, active_ws_id, selected_address, extra_dispatches) ==
    minify_cmds
    \o (IF move
        THEN <<swtxt.moveToWorkspace \o Format(active_ws_id) \o swtxt.commaAddress
               \o Format(selected_address)>>
        ELSE <<>>)
    \o <<swtxt.focusWindow \o Format(selected_address)>>
    \o extra_dispatches

\* main's activation: its argument, its locals, every list it has handed to batch, and
\* the status it ended with (or the type of the exception that left it).
MainFrame(move) ==
    [fn |-> "main", pc |-> "which", move_to_current_workspace |-> move, windows |-> <<>>,
     extra_dispatches |-> <<>>, active_address |-> PyNone, active_ws_id |-> PyNone,
     selected_window |-> PyNone, batches |-> <<>>, code |-> <<>>]

MainGoes(pc) == stack' = SetTop([Top EXCEPT !.pc = pc])
MainExits(code) == stack' = SetTop([Top EXCEPT !.pc = "exit", !.code = <<code>>])

\* main(move_to_current_workspace) is called.
MainCall ==
    /\ Idle /\ top.op = "none"
    /\ \E move \in BOOLEAN :
          /\ top' = [op |-> "main", arg |-> move]
          /\ stack' = <<MainFrame(move)>>
    /\ UNCHANGED <<ret, conns, calls>>
    /\ UNCHANGED evVars
    /\ UNCHANGED hostVars

\* shutil.which("fuzzel"), lines 206-208
MainWhich ==
    /\ Running("main", "which")
    /\ \E found \in BOOLEAN : IF found THEN MainGoes("from_env") ELSE MainExits(PyInt(1))
    /\ UNCHANGED <<ret, conns, calls, top>>
    /\ UNCHANGED evVars
    /\ UNCHANGED hostVars

\* HyprlandIPC.from_env(), lines 210-214
MainFromEnv ==
    /\ Running("main", "from_env")
    /\ \E found \in BOOLEAN : IF found THEN MainGoes("get_windows") ELSE MainExits(PyInt(1))
    /\ UNCHANGED <<ret, conns, calls, top>>
    /\ UNCHANGED evVars
    /\ UNCHANGED hostVars

\* get_windows(ipc), lines 216-218
MainGetWindows ==
    /\ Running("main", "get_windows")
    /\ \E clients \in ClientsOutcomes :
          IF GetWindows(clients) = <<>> THEN MainExits(PyInt(0))
          ELSE stack' = SetTop([Top EXCEPT !.pc = "extras", !.windows = GetWindows(clients)])
    /\ calls' = Append(calls, txt.jsonPrefix \o cmdText.clients)
    /\ UNCHANGED <<ret, conns, top>>
    /\ UNCHANGED evVars
    /\ UNCHANGED hostVars

\* get_extra_dispatches(), line 221
MainGetExtraDispatches ==
    /\ Running("main", "extras")
    /\ \E extra \in ExtraDispatches :
          stack' = SetTop([Top EXCEPT !.pc = "active", !.extra_dispatches = extra])
    /\ UNCHANGED <<ret, conns, calls, top>>
    /\ UNCHANGED evVars
    /\ UNCHANGED hostVars

\* The active window and workspace, lines 223-233
MainGetActive ==
    /\ Running("main", "active")
    /\ \E window \in ActiveWindowOutcomes, workspace \in ActiveWorkspaceOutcomes :
          IF window.kind = "raise"
          THEN /\ MainExits(PyInt(1))
               /\ calls' = Append(calls, txt.jsonPrefix \o cmdText.activeWindow)
          ELSE /\ calls' = calls \o <<txt.jsonPrefix \o cmdText.activeWindow,
                                      txt.jsonPrefix \o swtxt.activeWorkspace>>
               /\ IF workspace.kind = "raise" \/ Get(workspace.val, swtxt.id).t # "int"
                  THEN MainExits(PyInt(1))
                  ELSE stack' = SetTop([Top EXCEPT
                                   !.pc = "pick",
                                   !.active_address = Get(window.val, swtxt.address),
                                   !.active_ws_id = Get(workspace.val, swtxt.id)])
    /\ UNCHANGED <<ret, conns, top>>
    /\ UNCHANGED evVars
    /\ UNCHANGED hostVars

\* pick_window(windows), lines 237-239: the entries are formatted (a workspace that is no
\* dict ends the program there), fuzzel prints an index, or nothing.
MainPickWindow ==
    /\ Running("main", "pick")
    /\ IF \E j \in 1..Len(Top.windows) : Get(Top.windows[j], swtxt.workspace).t # "obj"
       THEN MainExits(JsonValue("TypeError", <<>>))
       ELSE \E idx \in {-1} \cup 0..Len(Top.windows) :
               IF idx \in 0..(Len(Top.windows) - 1)
               THEN stack' = SetTop([Top EXCEPT !.pc = "resolve",
                                                !.selected_window = Top.windows[idx + 1]])
               ELSE MainExits(PyInt(0))
    /\ UNCHANGED <<ret, conns, calls, top>>
    /\ UNCHANGED evVars
    /\ UNCHANGED hostVars

\* Lines 241-274: the selected window is checked, the commands are listed, batch is
\* called.
MainResolve ==
    /\ Running("main", "resolve")
    /\ LET m == Top
           selected_address == Get(m.selected_window, swtxt.address)
           ws == Get(m.selected_window, swtxt.workspace)
           invalid ==
               \/ selected_address.t # "str"
               \/ Truthy(m.active_address) /\ selected_address = m.active_address
               \/ /\ ~m.move_to_current_workspace
                  /\ ws.t # "obj" \/ Get(ws, swtxt.id).t # "int"
           target_ws_id == IF m.move_to_current_workspace THEN m.active_ws_id
                           ELSE Get(ws, swtxt.id)
           ipc_cmds == IpcCmds(minify_fullscreen_cmds(m.windows, target_ws_id, selected_address),
                               m.move_to_current_workspace, m.active_ws_id,
                               selected_address, m.extra_dispatches)
       IN  IF invalid THEN MainExits(PyInt(1)) /\ ret' = ret
           ELSE /\ stack' = Append(SetTop([m EXCEPT !.pc = "batch",
                                                    !.batches = Append(@, ipc_cmds)]),
                                   Frame("batch", ipc_cmds))
                /\ ret' = NoRet
    /\ UNCHANGED <<conns, calls, top>>
    /\ UNCHANGED evVars
    /\ UNCHANGED hostVars

\* batch is back, lines 274-278: status 1 on its error, and no return statement else.
MainBatchDone ==
    /\ Running("main", "batch")
    /\ ret.kind # "none"
    /\ MainExits(IF ret.kind = "raise" THEN PyInt(1) ELSE PyNone)
    /\ UNCHANGED <<ret, conns, calls, top>>
    /\ UNCHANGED evVars
    /\ UNCHANGED hostVars

Callers == {1, 2}

\* What is a caller's own, and what a caller has that has called nothing yet.
Context ==
    [stack |-> stack, ret |-> ret, calls |-> calls, top |-> top,
     gen |-> gen, evsock |-> evsock, evout |-> evout]
NoContext ==
    [stack |-> <<>>, ret |-> NoRet, calls |-> <<>>, top |-> [op |-> "none", arg |-> <<>>],
     gen |-> NoGen, evsock |-> NoEvSock, evout |-> <<>>]

\* Another caller is started.
Spawn ==
    /\ \E t \in Callers \ ({me} \cup DOMAIN others) :
          others' = [u \in DOMAIN others \cup {t} |-> IF u = t THEN NoContext ELSE others[u]]
    /\ UNCHANGED <<os, me>>
    /\ UNCHANGED cmdVars
    /\ UNCHANGED evVars

\* The interpreter hands over to a waiting caller; sockets live on in the process.
Switch ==
    /\ \E t \in DOMAIN others :
          /\ me' = t
          /\ others' = [u \in (DOMAIN others \ {t}) \cup {me} |->
                           IF u = me THEN Context ELSE others[u]]
          /\ stack' = others[t].stack
          /\ ret' = others[t].ret
          /\ calls' = others[t].calls
          /\ top' = others[t].top
          /\ gen' = others[t].gen
          /\ evsock' = others[t].evsock
          /\ evout' = others[t].evout
    /\ UNCHANGED <<conns, os>>

\* A caller that has the outcome of its call leaves the client to the next caller, who
\* has called nothing yet.
Handover ==
    /\ Done
    /\ \E t \in Callers \ ({me} \cup DOMAIN others) :
          /\ me' = t
          /\ others' = [u \in DOMAIN others \cup {me} |-> IF u = me THEN Context ELSE others[u]]
    /\ stack' = NoContext.stack
    /\ ret' = NoContext.ret
    /\ calls' = NoContext.calls
    /\ top' = NoContext.top
    /\ gen' = NoContext.gen
    /\ evsock' = NoContext.evsock
    /\ evout' = NoContext.evout
    /\ UNCHANGED <<conns, os>>

\* get_clients(), line 228: send_json("clients").
CallGetClients == Begin("send_json", cmdText.clients) /\ calls' = calls

Init ==
    /\ stack = <<>>
    /\ ret = NoRet
    /\ conns = <<>>
    /\ calls = <<>>
    /\ top = [op |-> "none", arg |-> <<>>]
    /\ gen = NoGen
    /\ evsock = NoEvSock
    /\ evout = <<>>
    /\ os = Os(PyNone, PyNone, "missing", "missing")
    /\ me = 1
    /\ others = <<>>

NextEvents ==
    \/ EventsCall \/ EventsClose \/ ListenEventsCall
    \/ EventsNext \/ EventsConnect \/ EventsConnectFail \/ EventsSelectorFail
    \/ EventsPeerSend \/ EventsPeerClose
    \/ EventsSelectTimeout \/ EventsSelectReady \/ EventsCast
    \/ ListenEventsRaise

SpecEvents == Init /\ [][NextEvents]_vars

\* A consumer that keeps pulling, and a peer that keeps going: whatever can happen next,
\* does.
SpecEventsFair == SpecEvents /\ WF_vars(NextEvents)

\* Callers that each read the event stream at the same time.
SpecReaders == Init /\ [][Spawn \/ Switch \/ NextEvents]_vars

Next ==
    \/ CallSend \/ CallSendJson \/ CallDispatch \/ CallDispatchMany \/ CallBatch
    \/ Collect
    \/ SendConnect \/ SendConnectFail \/ SendAll \/ SendAllFail
    \/ PeerSend \/ PeerClose \/ SendRecv \/ SendRecvFail \/ SendDecode
    \/ SendJsonCall \/ SendJsonAfter
    \/ DispatchCall \/ DispatchAfter
    \/ DispatchManyStep \/ DispatchManyAfter
    \/ BatchCall \/ BatchAfter \/ BatchFallbackDone

Spec == Init /\ [][Next]_vars

\* The client is made from the environment, in sessions set up one way or another.
SpecEnv == Init /\ [][Host \/ FromEnvCall \/ FromEnvPaths \/ FromEnvCheck \/ Collect]_vars

\* Callers that dispatch at the same time.
SpecConcurrent ==
    Init /\ [][\/ Spawn \/ Switch
               \/ CallDispatch \/ DispatchCall \/ DispatchAfter
               \/ SendConnect \/ SendConnectFail \/ SendAll \/ SendAllFail
               \/ PeerSend \/ PeerClose \/ SendRecv \/ SendRecvFail \/ SendDecode]_vars

\* batch, and what it calls.
SpecBatch ==
    Init /\ [][\/ CallBatch \/ BatchCall \/ BatchAfter \/ BatchFallbackDone
               \/ DispatchManyStep \/ DispatchManyAfter \/ DispatchCall \/ DispatchAfter
               \/ SendConnect \/ SendConnectFail \/ SendAll \/ SendAllFail
               \/ PeerSend \/ PeerClose \/ SendRecv \/ SendRecvFail \/ SendDecode]_vars

\* send, dispatch and batch against a peer that rejects every request, in one casing or
\* another.
SpecCasing ==
    Init /\ [][\/ CallSend \/ CallDispatch \/ CallBatch
               \/ BatchCall \/ BatchAfter \/ BatchFallbackDone
               \/ DispatchManyStep \/ DispatchManyAfter \/ DispatchCall \/ DispatchAfter
               \/ SendConnect \/ SendAllCased
               \/ PeerSend \/ PeerClose \/ SendRecv \/ SendDecode]_vars

\* One run of the window switcher, against a peer that answers each dispatch request.
SpecSwitcher ==
    Init /\ [][MainCall \/ MainWhich \/ MainFromEnv \/ MainGetWindows \/ MainGetExtraDispatches
               \/ MainGetActive \/ MainPickWindow \/ MainResolve \/ MainBatchDone
               \/ BatchCall \/ BatchAfter \/ BatchFallbackDone
               \/ DispatchManyStep \/ DispatchManyAfter \/ DispatchCall \/ DispatchAfter
               \/ SendConnect \/ SendConnectFail \/ SendAll \/ PeerSend \/ PeerClose
               \/ SendRecv \/ SendDecode]_vars

\* The same query, made again on the same client when the call before it has ended,
\* against a peer that is there and whose state does not change.
SpecRepeat ==
    Init /\ [][\/ Handover
               \/ CallGetClients \/ SendJsonCall \/ SendJsonAfter
               \/ SendConnect \/ SendAllUnchangedPeer
               \/ PeerSend \/ PeerClose \/ SendRecv \/ SendDecode]_vars

(***************************************************************************)
(* Properties of the command channel, read off the wire: what the peer     *)
(* sent on a connection (conns[i].sent) against the outcome of the call.   *)
(***************************************************************************)

\* The peer answered on connection c with bytes that decode, closed, and the client read
\* to the end; the answer as text, trimmed; whether it is a rejection.
Answered(c) == c.state = "closed" /\ c.fault = "none" /\ c.peerClosed /\ Utf8Decode(c.sent).ok
AnswerText(c) == Strip(Utf8Decode(c.sent).text)
Rejected(c) == Answered(c) /\ StartsWith(AnswerText(c), txt.unknown)
Accepted(c) == Answered(c) /\ ~StartsWith(AnswerText(c), txt.unknown)

\* C1: when send(command) has ended and the peer delivered a decodable response before
\* closing, then send raised HyprlandIPCError if the decoded, trimmed text starts with
\* "unknown", and otherwise returned exactly that trimmed text.
C1_SendRejectsOrReturns ==
    (top.op = "send" /\ Done /\ conns # <<>> /\ Answered(conns[1])) =>
        IF StartsWith(AnswerText(conns[1]), txt.unknown)
        THEN ret.kind = "raise" /\ ret.val.type = "HyprlandIPCError"
        ELSE ret = Returned(PyStr(AnswerText(conns[1])))

\* send raised on the response " unknown r\n": the rejection is seen after trimming.
C1_Witness ==
    /\ top.op = "send" /\ Done /\ conns # <<>> /\ Answered(conns[1])
    /\ conns[1].sent = <<32>> \o txt.unknown \o <<32, 114, 10>>
    /\ ret.kind = "raise"

\* What batch's joined request and the per-command requests must be.
JoinedRequest(commands) == txt.dispatch \o Join(commands, txt.join)
CommandRequests(commands, k) == [i \in 1..k |-> txt.dispatch \o commands[i]]

\* C2, as stated: batch first sends the one joined request; when the peer accepts it,
\* nothing more is sent and batch returns; when the peer rejects it with "unknown",
\* batch then sends all n requests `dispatch c1` .. `dispatch cn`, in order.
C2_AllCommandsAfterRejection ==
    (top.op = "batch" /\ Done) =>
        /\ calls # <<>> /\ calls[1] = JoinedRequest(top.arg)
        /\ Accepted(conns[1]) => calls = <<JoinedRequest(top.arg)>> /\ ret = Returned(PyNone)
        /\ Rejected(conns[1]) =>
              calls = <<JoinedRequest(top.arg)>> \o CommandRequests(top.arg, Len(top.arg))

\* C2, amended: after the rejection batch sends `dispatch c1`, `dispatch c2`, .. in
\* order, one per connection, up to and including the first one that fails; all n are
\* sent only when none of the earlier ones fails, and batch returns only when none fails.
C2_FallbackStopsAtFirstFailure ==
    (top.op = "batch" /\ Done) =>
        /\ calls # <<>> /\ calls[1] = JoinedRequest(top.arg)
        /\ Accepted(conns[1]) => calls = <<JoinedRequest(top.arg)>> /\ ret = Returned(PyNone)
        /\ Rejected(conns[1]) =>
              LET n == Len(top.arg)
                  k == Len(calls) - 1
              IN  /\ k <= n
                  /\ calls = <<JoinedRequest(top.arg)>> \o CommandRequests(top.arg, k)
                  /\ Len(conns) = Len(calls)
                  /\ \A i \in 1..Len(conns) :
                        conns[i].wrote => conns[i].request = Utf8Encode(calls[i]).bytes
                  /\ \A i \in 1..(k - 1) : Accepted(conns[i + 1])
                  /\ k < n => k >= 1 /\ ~Accepted(conns[k + 1])
                  /\ ret.kind = "value" <=> (k = n /\ \A i \in 1..n : Accepted(conns[i + 1]))
                  /\ ret.kind = "value" => ret = Returned(PyNone)

\* batch of three commands: the joined request is rejected, `dispatch c1` is accepted,
\* `dispatch c2` fails, and no request for c3 is sent.
C2_Witness ==
    /\ top.op = "batch" /\ Done /\ Len(top.arg) = 3
    /\ Rejected(conns[1])
    /\ Len(calls) = 3 /\ Len(conns) = 3
    /\ Accepted(conns[2]) /\ ~Accepted(conns[3])
    /\ ret.kind = "raise"

\* C3: when batch's joined request fails otherwise than by the peer's "unknown"
\* rejection (connect refused, send or receive failure, response not UTF-8), batch
\* sends no per-command request and the failure of the joined request reaches the caller.
C3_NoFallbackOnOtherFailure ==
    (top.op = "batch" /\ Done /\ conns # <<>> /\ ~Answered(conns[1])) =>
        /\ calls = <<JoinedRequest(top.arg)>>
        /\ Len(conns) = 1
        /\ ret.kind = "raise" /\ ret.val.site = "send"

\* C4: dispatch_many(c1..cn) sends `dispatch c1`, `dispatch c2`, .. in order, each only
\* after all earlier ones succeeded; it ends after the first ck that fails, with an error
\* that names ck, and no request for a later command exists; when none fails, n requests
\* were sent and the call returns normally.
C4_DispatchManyStopsAtFirstFailure ==
    top.op = "dispatch_many" =>
        LET n == Len(top.arg)
            k == Len(calls)
        IN  /\ k <= n
            /\ calls = CommandRequests(top.arg, k)
            /\ Len(conns) <= k
            /\ \A i \in 1..Len(conns) :
                  /\ conns[i].wrote => conns[i].request = Utf8Encode(calls[i]).bytes
                  /\ i < k => Accepted(conns[i])
            /\ Done =>
                  /\ Len(conns) = k
                  /\ IF \A i \in 1..k : Accepted(conns[i])
                     THEN k = n /\ ret = Returned(PyNone)
                     ELSE /\ ret.kind = "raise" /\ ret.val.type = "HyprlandIPCError"
                          /\ ret.val.site = "dispatch_many" /\ ret.val.command = top.arg[k]
                          /\ StartsWith(Str(ret.val),
                                        txt.dispatchCommandFailed \o top.arg[k] \o <<39>>)

\* dispatch_many of three commands whose second fails: two requests, and the error.
C4_Witness ==
    /\ top.op = "dispatch_many" /\ Done /\ Len(top.arg) = 3
    /\ Len(calls) = 2 /\ Accepted(conns[1]) /\ ~Accepted(conns[2])
    /\ ret.kind = "raise"

\* C8: send_json(command) sends exactly the request "j/" + command; it returns {} when
\* send returns the empty text, and for a body that is the JSON text of a value it
\* returns that value (a repeated key keeping its last value).
C8_SendJsonValue ==
    top.op = "send_json" =>
        /\ calls \in {<<>>, <<<<106, 47>> \o top.arg>>}
        /\ Len(conns) <= 1
        /\ \A i \in 1..Len(conns) :
              conns[i].wrote => conns[i].request = Utf8Encode(<<106, 47>> \o top.arg).bytes
        /\ (Done /\ conns # <<>> /\ Accepted(conns[1])) =>
              LET resp == AnswerText(conns[1])
              IN  /\ resp = <<>> => ret = Returned(JsonEmptyObject)
                  /\ \A v \in JsonValues : resp = JsonDumps(v) => ret = Returned(v)
                  \* {"a":1,"a":2}
                  /\ resp = <<123,34,97,34,58,49,44,34,97,34,58,50,125>> =>
                        ret = Returned(JsonValue("obj", <<<<<<97>>, JsonValue("int", <<2>>)>>>>))
                  \* [ 1 ] over three lines
                  /\ resp = <<91,10,49,10,93>> =>
                        ret = Returned(JsonValue("arr", <<JsonValue("int", <<1>>)>>))

\* send_json returned the nested value [{"a": [0]}] the peer wrote.
C8_Witness ==
    /\ top.op = "send_json" /\ Done /\ conns # <<>> /\ Accepted(conns[1])
    /\ ret.kind = "value" /\ ret.val \in JsonNested
    /\ calls = <<txt.jsonPrefix \o top.arg>>

\* Texts that are no JSON: {"a"   [1,]   {} {}   [ U+00A0 ]
InvalidJsonTexts ==
    {<<123,34,97,34>>, <<91,49,44,93>>, <<123,125,32,123,125>>, <<91,160,93>>}

\* C9: when send_json has ended: a non-empty response that is no JSON raised
\* HyprlandIPCError whose message names the command and the decode error; when the
\* underlying send failed (transport failure, undecodable response or rejection), the
\* caller has the error send raised, as send raised it.
C9_SendJsonErrors ==
    (top.op = "send_json" /\ Done /\ conns # <<>>) =>
        /\ (Accepted(conns[1]) /\ AnswerText(conns[1]) \in InvalidJsonTexts) =>
              /\ ret.kind = "raise" /\ ret.val.type = "HyprlandIPCError"
              /\ ret.val.cause # <<>> /\ ret.val.cause[1].type = "JSONDecodeError"
              /\ Contains(Str(ret.val), <<39>> \o top.arg \o <<39>>)
              /\ Contains(Str(ret.val), Str(ret.val.cause[1]))
        /\ (Accepted(conns[1]) /\ ret.kind = "raise") =>
              AnswerText(conns[1]) # <<>> /\ ret.val.site = "send_json.decode"
        /\ ~Accepted(conns[1]) =>
              /\ ret.kind = "raise" /\ ret.val.type = "HyprlandIPCError"
              /\ ret.val.site = "send" /\ ret.val.command = <<106, 47>> \o top.arg
              /\ ret.val.cause # <<>>
              /\ ret.val.cause[1] =
                    IF conns[1].fault = "connect" THEN ConnectionRefusedError
                    ELSE IF conns[1].fault = "sendall" THEN BrokenPipeError
                    ELSE IF conns[1].fault = "recv" THEN ConnectionResetError
                    ELSE IF ~Utf8Decode(conns[1].sent).ok THEN Utf8Decode(conns[1].sent).err
                    ELSE SendRejected(AnswerText(conns[1]))

\* send_json raised on the response "[1,]".
C9_Witness ==
    /\ top.op = "send_json" /\ Done /\ conns # <<>> /\ Accepted(conns[1])
    /\ AnswerText(conns[1]) = <<91,49,44,93>>
    /\ ret.kind = "raise" /\ ret.val.site = "send_json.decode"

\* C10: while send reads, what it has read followed by what waits to be read is what the
\* peer sent, in order; send leaves the read loop only when the peer has closed and
\* everything it sent has been read; and the text send returns is the whole of it.
C10_ReadsUntilClose ==
    /\ Running("send", "recv") =>
          Top.response \o conns[cur].inbox = conns[cur].sent
    /\ Running("send", "decode") =>
          conns[cur].peerClosed /\ Top.response = conns[cur].sent
    /\ (top.op = "send" /\ Done /\ ret.kind = "value") =>
          /\ conns[1].peerClosed /\ Utf8Decode(conns[1].sent).ok
          /\ ret.val.v = AnswerText(conns[1])

\* send has read a first part of the response, the peer has more to send, and send reads on.
C10_Witness ==
    /\ Running("send", "recv")
    /\ Top.response # <<>>
    /\ conns[cur].script # <<>> /\ ~conns[cur].peerClosed

\* C11, as stated: every send call opens exactly one connection and writes exactly one
\* request on it, and the connection is closed when the call has ended.
C11_OneConnectionAndRequestPerSend ==
    Done =>
        /\ Len(conns) = Len(calls)
        /\ \A i \in 1..Len(conns) :
              /\ conns[i].wrote /\ conns[i].request = Utf8Encode(calls[i]).bytes
              /\ conns[i].state = "closed"

\* C11, amended: a send call whose command cannot be encoded makes no socket; every
\* other send call makes exactly one, writes on it at most one request (none when
\* connect or sendall fails), which is its own command, and the socket is closed when
\* the call ends, however it ends; a socket is open only while the send that made it
\* runs, so none serves a second call and no call makes a second one.
C11_AtMostOneConnectionPerSend ==
    LET Encodable(command) == \A i \in 1..Len(command) : ~IsSurrogate(command[i])
        OwnRequest(sends, i) ==
            conns[i].request = IF conns[i].wrote THEN Utf8Encode(sends[i]).bytes ELSE <<>>
        OnePerSend(sends) ==
            /\ Len(conns) <= Len(sends)
            /\ Len(conns) < Len(sends) =>
                  Running("send", "start") /\ Len(conns) = Len(sends) - 1
            /\ \A i \in 1..Len(conns) : ~conns[i].wrote => conns[i].request = <<>>
            /\ Done => Len(conns) = Len(sends) /\ \A i \in 1..Len(conns) : OwnRequest(sends, i)
    IN  /\ OnePerSend(SelectSeq(calls, Encodable))
        /\ \A i \in 1..Len(conns) :
              /\ conns[i].state = "open" =>
                    /\ i = Len(conns) /\ stack # <<>> /\ Top.fn = "send" /\ Top.sock = i
                    /\ Top.pc \in {"sendall", "recv"}
                    /\ conns[i].wrote <=> Top.pc = "recv"
              /\ conns[i].state = "closed" =>
                    conns[i].wrote <=> conns[i].fault \in {"none", "recv"}
        /\ Done => \A i \in 1..Len(conns) : conns[i].state = "closed"

\* batch has ended after two sends: the joined request was rejected, the first
\* per-command request could not connect, and its socket is closed like the others.
C11_Witness ==
    /\ top.op = "batch" /\ Done
    /\ Len(calls) = 2 /\ Len(conns) = 2
    /\ conns[1].wrote /\ conns[1].state = "closed"
    /\ conns[2].fault = "connect" /\ ~conns[2].wrote /\ conns[2].state = "closed"

\* C16: an exception that leaves send, dispatch, dispatch_many or batch is a
\* HyprlandIPCError; the one send raises carries the command send was given in its
\* message and has the underlying failure attached as its cause: the encoding error,
\* the refused connect, the failed sendall or recv, the decoding error, or the rejection.
C16_FailuresAreClientErrors ==
    (ret.kind = "raise" /\ top.op \in {"send", "dispatch", "dispatch_many", "batch"}) =>
        LET e == ret.val
            sent == calls[Len(calls)]
            raised == CASE e.site = "send" -> e
                        [] e.site = "dispatch" -> e.cause[1]
                        [] e.site = "dispatch_many" -> e.cause[1].cause[1]
            Underlying(c) ==
                IF c.fault = "connect" THEN ConnectionRefusedError
                ELSE IF c.fault = "sendall" THEN BrokenPipeError
                ELSE IF c.fault = "recv" THEN ConnectionResetError
                ELSE IF ~Utf8Decode(c.sent).ok THEN Utf8Decode(c.sent).err
                ELSE SendRejected(AnswerText(c))
        IN  /\ e.type = "HyprlandIPCError"
            /\ e.site \in {"send", "dispatch", "dispatch_many"}
            /\ Contains(Str(e), <<39>> \o sent \o <<39>>)
            /\ raised.type = "HyprlandIPCError" /\ raised.site = "send"
            /\ raised.command = sent
            /\ StartsWith(Str(raised), txt.sendFailed \o sent \o txt.quoteColon)
            /\ raised.cause =
                  IF ~Utf8Encode(sent).ok THEN <<Utf8Encode(sent).err>>
                  ELSE <<Underlying(conns[Len(conns)])>>

\* dispatch_many ended on a response that is not UTF-8: its error holds dispatch's,
\* which holds send's, which holds the UnicodeDecodeError.
C16_Witness ==
    /\ top.op = "dispatch_many" /\ Done /\ ret.kind = "raise"
    /\ ret.val.cause[1].cause[1].site = "send"
    /\ ret.val.cause[1].cause[1].cause[1].type = "UnicodeDecodeError"

\* C17: within one batch call the joined request is sent once, as the first request;
\* dispatch_many is entered at most once, and only from batch's handler; what follows
\* the joined request is `dispatch c1`, `dispatch c2`, .. once each, so at most 1 + n
\* requests; and a failure during the fallback ends batch with that failure.
C17_FallbackAtMostOnce ==
    top.op = "batch" =>
        LET n == Len(top.arg)
            fallbacks == {i \in 1..Len(stack) : stack[i].fn = "dispatch_many"}
        IN  /\ Len(calls) <= 1 + n
            /\ Len(conns) <= Len(calls)
            /\ calls # <<>> =>
                  calls = <<JoinedRequest(top.arg)>> \o CommandRequests(top.arg, Len(calls) - 1)
            /\ Cardinality(fallbacks) <= 1
            /\ fallbacks # {} => fallbacks = {2} /\ stack[1].pc = "fallback"
            /\ (stack # <<>> /\ stack[1].pc # "fallback") => Len(calls) <= 1
            /\ (Done /\ Len(calls) > 1 /\ ret.kind = "raise") =>
                  /\ ret.val.site = "dispatch_many"
                  /\ ret.val.command = top.arg[Len(calls) - 1]
                  /\ ~Accepted(conns[Len(conns)])

\* batch of three commands: the joined request was rejected, the third per-command
\* request failed, and batch ended with that failure after 1 + 3 requests.
C17_Witness ==
    /\ top.op = "batch" /\ Done /\ Len(top.arg) = 3
    /\ Len(calls) = 4 /\ Rejected(conns[1])
    /\ ret.kind = "raise" /\ ret.val.command = top.arg[3]

\* C23: when get_clients() has been called again on the same client after an earlier
\* call ended, and the peer has behaved on the second connection as on the first (the
\* same bytes sent, the same end), then the second call has sent the same request bytes
\* and has the same outcome, value for value or error for error; and between the calls
\* the client holds nothing: no frame, no open connection.
C23_RepeatedQueryAnswersTheSame ==
    \A t \in DOMAIN others :
        LET first == others[t]
            Mine(c) == conns[c].owner = me
            Theirs(c) == conns[c].owner = t
            mine == {c \in DOMAIN conns : Mine(c)}
            theirs == {c \in DOMAIN conns : Theirs(c)}
            Same(c, d) ==
                /\ conns[c].sent = conns[d].sent
                /\ conns[c].fault = conns[d].fault
                /\ conns[c].peerClosed = conns[d].peerClosed
        IN  (/\ Done /\ top.op = "send_json"
             /\ first.stack = <<>> /\ first.ret.kind # "none" /\ first.top = top
             /\ \A c \in mine, d \in theirs : Same(c, d)) =>
                /\ Cardinality(mine) = 1 /\ Cardinality(theirs) = 1
                /\ \A c \in mine, d \in theirs :
                      /\ conns[c].request = conns[d].request
                      /\ conns[c].state = "closed" /\ conns[d].state = "closed"
                /\ calls = first.calls
                /\ ret = first.ret

\* The second get_clients() has returned the list the first one returned, an array with
\* an item, each over a connection of its own.
C23_Witness ==
    /\ Done /\ top.op = "send_json" /\ top.arg = cmdText.clients
    /\ ret.kind = "value" /\ ret.val.t = "arr" /\ ret.val.v # <<>>
    /\ Len(conns) = 2 /\ conns[1].owner # conns[2].owner
    /\ \E t \in DOMAIN others : others[t].ret = ret /\ others[t].top = top

\* C24: batch falls back exactly when the message of the joined request's error holds
\* "unknown" in any casing, and that is so exactly when the joined command text or the
\* text of the underlying failure holds it: a rejection by the peer, but also a refused
\* connect or a failed write or read of a request that itself holds the word.  Without
\* the word batch sends nothing more and the error of send is the caller's.  (Looked at
\* when the fallback is entered and when batch has ended.)
C24_FallbackOnAnyMentionOfUnknown ==
    (/\ top.op = "batch"
     /\ Done \/ (Len(stack) = 2 /\ Running("dispatch_many", "start") /\ Top.i = 1)
     /\ conns # <<>> /\ conns[1].state = "closed" /\ ~Accepted(conns[1])) =>
        LET joined == JoinedRequest(top.arg)
            cause == IF conns[1].fault = "connect" THEN ConnectionRefusedError
                     ELSE IF conns[1].fault = "sendall" THEN BrokenPipeError
                     ELSE IF conns[1].fault = "recv" THEN ConnectionResetError
                     ELSE IF ~Utf8Decode(conns[1].sent).ok THEN Utf8Decode(conns[1].sent).err
                     ELSE SendRejected(AnswerText(conns[1]))
            message == txt.sendFailed \o joined \o txt.quoteColon \o Str(cause)
            Mentions(text) == Contains(Lower(text), txt.unknown)
            fellBack == ~Done
        IN  /\ Mentions(message) <=> (Mentions(joined) \/ Mentions(Str(cause)))
            /\ fellBack => Mentions(message)
            /\ Done =>
                  IF Mentions(message)
                  THEN /\ Len(calls) = 1 => (top.arg = <<>> /\ ret = Returned(PyNone))
                       /\ Len(calls) > 1 =>
                             /\ calls[2] = txt.dispatch \o top.arg[1]
                             /\ ret.kind = "raise" => ret.val.site = "dispatch_many"
                  ELSE /\ calls = <<joined>>
                       /\ ret.kind = "raise" /\ ret.val.site = "send" /\ Str(ret.val) = message

\* batch of `pin` and `exec Unknown`: the connect of the joined request was refused, the
\* peer rejected nothing, and batch went on to dispatch `pin` by itself.
C24_Witness ==
    /\ top.op = "batch" /\ top.arg = <<cmdText.pin, cmdText.execUnknown>>
    /\ conns # <<>> /\ conns[1].fault = "connect" /\ ~conns[1].wrote
    /\ Len(calls) = 2 /\ calls[2] = txt.dispatch \o cmdText.pin
    /\ Len(conns) = 2 /\ conns[2].wrote

\* C25: send takes a response for the rejection only when its trimmed text starts with
\* "unknown" in lower case, while batch's test would find the word in any casing anywhere
\* in the error's message.  So a response that starts with "Unknown" or "UNKNOWN" is what
\* send returns; dispatch then ends normally, and batch ends normally after the one
\* joined request, without falling back; the lower-case rejection makes send and
\* dispatch raise and batch fall back.
C25_OtherCasingIsSuccess ==
    (Done /\ conns # <<>> /\ Answered(conns[1])) =>
        LET text == AnswerText(conns[1])
            rejection == SendWrap(calls[1], SendRejected(text))
        IN  /\ BatchFallsBack(rejection)
            /\ IF StartsWith(text, txt.unknown)
               THEN /\ top.op = "send" => ret = Raised(rejection)
                    /\ top.op = "dispatch" => ret.kind = "raise"
                    /\ top.op = "batch" => (top.arg = <<>> \/ Len(calls) > 1)
               ELSE /\ Len(calls) = 1 /\ Len(conns) = 1
                    /\ ret = Returned(IF top.op = "send" THEN PyStr(text) ELSE PyNone)

\* batch of two commands has returned after the joined request alone, which the peer
\* answered with " UNKNOWN\n".
C25_Witness ==
    /\ top.op = "batch" /\ Len(top.arg) = 2 /\ Done
    /\ conns[1].sent = <<32, 85, 78, 75, 78, 79, 87, 78, 10>>
    /\ calls = <<JoinedRequest(top.arg)>>
    /\ ret = Returned(PyNone)

\* C28, as stated: for every sequence, the empty one too, batch returns normally only
\* when each command went out in a request the peer accepted, and a rejection of the
\* joined request is never dropped: after it batch raises, or requests the peer accepted
\* have followed.
C28_RejectionNeverDropped ==
    (top.op = "batch" /\ Done /\ ret.kind = "value") =>
        LET n == Len(top.arg)
        IN  /\ conns # <<>>
            /\ \/ Accepted(conns[1]) /\ Len(conns) = 1
               \/ /\ ~Accepted(conns[1]) /\ Len(conns) = 1 + n
                  /\ \A i \in 1..n : Accepted(conns[i + 1])
            /\ Rejected(conns[1]) => Len(conns) > 1

\* C28, what the code does: batch returns normally only when each command went out in a request
\* the peer accepted: the joined request, or after its failure n requests `dispatch ci`,
\* one for each command in order, all accepted; so for a sequence that is not empty a
\* rejection is never dropped.  For the empty sequence the joined request `dispatch ` is
\* the only request there is, and when the peer rejects it batch returns normally.
C28_NonEmptyRejectionNeverDropped ==
    (top.op = "batch" /\ Done) =>
        LET n == Len(top.arg)
            ViaFallback ==
                /\ Len(conns) = 1 + n /\ Len(calls) = 1 + n
                /\ \A i \in 1..n :
                      /\ Accepted(conns[i + 1])
                      /\ conns[i + 1].request = Utf8Encode(txt.dispatch \o top.arg[i]).bytes
        IN  /\ conns # <<>>
            /\ conns[1].wrote => conns[1].request = Utf8Encode(JoinedRequest(top.arg)).bytes
            /\ ret.kind = "value" =>
                  IF Accepted(conns[1]) THEN Len(conns) = 1 ELSE ViaFallback
            /\ (n >= 1 /\ ~Accepted(conns[1])) => (ret.kind = "raise" \/ ViaFallback)
            /\ (n = 0 /\ Rejected(conns[1])) =>
                  /\ ret = Returned(PyNone)
                  /\ Len(conns) = 1 /\ calls = <<txt.dispatch>>

\* batch of two commands has returned: the joined request was rejected and both
\* requests of the fallback were accepted.
C28_Witness ==
    /\ top.op = "batch" /\ Done /\ Len(top.arg) = 2
    /\ ret = Returned(PyNone)
    /\ Len(conns) = 3 /\ Rejected(conns[1]) /\ Accepted(conns[2]) /\ Accepted(conns[3])

\* C30: a run of the window switcher calls batch at most once, and only when a window
\* with an address other than the active window's was selected; until then, and on every
\* path that ends before (no fuzzel, no client, no window, a failed query, nothing picked,
\* the focused window picked, no valid address or workspace), no dispatch request is
\* sent and no connection for one is made.  The list handed to batch is: one
\* `focuswindow address:<a>; fullscreen 0` for each fullscreen window of the target
\* workspace other than the selected one, in the order of the window list; then
\* `movetoworkspace <active workspace>, address:<selected>` if the window is to be moved;
\* then `focuswindow address:<selected>`, once; then the extra dispatches in their order.
\* The first dispatch request is that list joined, and status 0 is returned by the early
\* exits alone.
C30_OneBatchAfterSelection ==
    (top.op = "main" /\ stack[1].pc \in {"batch", "exit"}) =>
        LET m == stack[1]
            selected == Get(m.selected_window, swtxt.address)
            target == IF m.move_to_current_workspace THEN m.active_ws_id
                      ELSE Get(Get(m.selected_window, swtxt.workspace), swtxt.id)
            full == {j \in 1..Len(m.windows) :
                       /\ Get(Get(m.windows[j], swtxt.workspace), swtxt.id) = target
                       /\ Truthy(Get(m.windows[j], swtxt.fullscreen))
                       /\ Get(m.windows[j], swtxt.address) # selected}
            nth(k) == CHOOSE j \in full : Cardinality({i \in full : i < j}) = k - 1
            n == Cardinality(full)
            mv == IF m.move_to_current_workspace THEN 1 ELSE 0
            dispatches == {i \in 1..Len(calls) : StartsWith(calls[i], txt.dispatch)}
        IN  /\ Len(m.batches) <= 1
            /\ m.batches = <<>> =>
                  /\ m.pc = "exit" /\ m.code # <<PyNone>>
                  /\ dispatches = {} /\ conns = <<>>
            /\ m.code = <<PyInt(0)>> => m.batches = <<>>
            /\ m.batches # <<>> =>
                  LET cmds == m.batches[1]
                  IN  /\ selected.t = "str" /\ selected # m.active_address
                      /\ m.active_ws_id.t = "int" /\ target.t = "int"
                      /\ Len(cmds) = n + mv + 1 + Len(m.extra_dispatches)
                      /\ \A k \in 1..n :
                            cmds[k] = swtxt.focusWindow
                                      \o Format(Get(m.windows[nth(k)], swtxt.address))
                                      \o swtxt.fullscreenOff
                      /\ mv = 1 =>
                            cmds[n + 1] = swtxt.moveToWorkspace \o Digits(m.active_ws_id.v[1])
                                          \o swtxt.commaAddress \o selected.v
                      /\ cmds[n + mv + 1] = swtxt.focusWindow \o selected.v
                      /\ Cardinality({k \in 1..Len(cmds) :
                                         cmds[k] = swtxt.focusWindow \o selected.v}) = 1
                      /\ SubSeq(cmds, n + mv + 2, Len(cmds)) = m.extra_dispatches
                      /\ dispatches # {} =>
                            calls[CHOOSE i \in dispatches : \A j \in dispatches : i <= j]
                                = txt.dispatch \o Join(cmds, txt.join)

\* A run has moved and focused a window of another workspace after it took two others
\* out of fullscreen, with two extra dispatches, and ended without an error.
C30_Witness ==
    /\ top.op = "main" /\ stack[1].pc = "exit" /\ stack[1].code = <<PyNone>>
    /\ stack[1].move_to_current_workspace
    /\ Len(stack[1].batches) = 1 /\ Len(stack[1].batches[1]) = 6
    /\ conns # <<>>

\* C19: with several callers dispatching at once, under every interleaving: the socket
\* of a running send is one its own caller made, the request on a connection is the
\* command of the caller that made it, what a send has read followed by what waits on
\* its socket is what the peer sent on that socket, and the text a send returns is the
\* decoded, trimmed whole of what the peer sent on its caller's connection.
C19_CallersOwnTheirConnections ==
    LET all == [t \in DOMAIN others \cup {me} |-> IF t = me THEN Context ELSE others[t]]
        Own(t, f) ==
            /\ f.sock \in DOMAIN conns
            /\ conns[f.sock].owner = t
            /\ f.pc = "recv" => f.response \o conns[f.sock].inbox = conns[f.sock].sent
            /\ f.pc = "decode" => f.response = conns[f.sock].sent
    IN  /\ \A t \in DOMAIN all : \A i \in 1..Len(all[t].stack) :
              (all[t].stack[i].fn = "send" /\ all[t].stack[i].pc # "start") =>
                  Own(t, all[t].stack[i])
        /\ \A c \in DOMAIN conns :
              /\ conns[c].owner \in DOMAIN all
              /\ conns[c].wrote =>
                    conns[c].request = Utf8Encode(all[conns[c].owner].calls[1]).bytes
              /\ (conns[c].wrote /\ conns[c].state = "open") =>
                    conns[c].sent \o conns[c].script \in
                        PeerResponses(Utf8Encode(all[conns[c].owner].calls[1]).bytes)
        /\ \A t \in DOMAIN all :
              (all[t].ret.kind = "value" /\ all[t].ret.val.t = "str") =>
                  /\ \E c \in DOMAIN conns : conns[c].owner = t
                  /\ \A c \in DOMAIN conns :
                        conns[c].owner = t => all[t].ret.val.v = AnswerText(conns[c])

\* Two callers are both in the middle of reading, each a different response to a
\* different command, on two connections that are open at once.
C19_Witness ==
    /\ Running("send", "recv") /\ Top.response # <<>>
    /\ \E t \in DOMAIN others :
          LET f == others[t].stack[Len(others[t].stack)]
          IN  /\ others[t].stack # <<>> /\ f.fn = "send" /\ f.pc = "recv"
              /\ f.response # <<>> /\ f.response # Top.response
              /\ f.arg # Top.arg /\ f.sock # Top.sock
              /\ conns[f.sock].state = "open" /\ conns[Top.sock].state = "open"
              /\ conns[f.sock].script # <<>> /\ conns[Top.sock].script # <<>>

(***************************************************************************)
(* Properties of from_env.                                                 *)
(***************************************************************************)

\* C14, as stated: when a variable is absent, from_env fails before any path is
\* resolved or looked at, and the message names exactly the absent variables.
C14_NamesTheAbsentVariables ==
    (top.op = "from_env" /\ Done /\ PyNone \in {top.arg[1], top.arg[2]}) =>
        /\ ret.kind = "raise" /\ ret.val.type = "HyprlandIPCError"
        /\ os.probes = <<>>
        /\ Str(ret.val) =
              txt.mustRun
              \o Join((IF top.arg[1] = PyNone THEN <<txt.xdgRuntimeDir>> ELSE <<>>)
                      \o (IF top.arg[2] = PyNone THEN <<txt.instanceSignature>> ELSE <<>>),
                      <<44, 32>>)
              \o <<41>>

\* C14, amended: when a variable is absent or set to the empty text, from_env fails
\* before any path is resolved or looked at, and the message names exactly the
\* variables that are absent or empty, XDG_RUNTIME_DIR first; and it fails so in no
\* other case.
C14_NamesTheAbsentOrEmptyVariables ==
    (top.op = "from_env" /\ Done) =>
        LET Unusable(value) == value = PyNone \/ value.v = <<>>
            names == (IF Unusable(top.arg[1]) THEN <<txt.xdgRuntimeDir>> ELSE <<>>)
                     \o (IF Unusable(top.arg[2]) THEN <<txt.instanceSignature>> ELSE <<>>)
        IN  IF names # <<>>
            THEN /\ ret.kind = "raise" /\ ret.val.type = "HyprlandIPCError"
                 /\ os.probes = <<>>
                 /\ Str(ret.val) = txt.mustRun \o Join(names, <<44, 32>>) \o <<41>>
            ELSE /\ os.probes # <<>>
                 /\ ret.kind = "raise" => ~StartsWith(Str(ret.val), txt.mustRun)

\* Both sockets are in place and XDG_RUNTIME_DIR is set, HYPRLAND_INSTANCE_SIGNATURE is
\* not: from_env has failed, naming that one variable.
C14_Witness ==
    /\ top.op = "from_env" /\ Done
    /\ top.arg = <<PyStr(<<47, 114, 117, 110, 47, 117>>), PyNone>>
    /\ Cardinality(DOMAIN os.files) = 2 /\ \A f \in DOMAIN os.files : os.files[f] = "socket"
    /\ ret.kind = "raise"
    /\ Str(ret.val) = txt.mustRun \o txt.instanceSignature \o <<41>>

\* C15: with both variables set (and not empty), from_env fails with "Expected Hyprland
\* socket files not found." unless .socket.sock and .socket2.sock under
\* <runtime directory>/hypr/<signature> are both sockets, the runtime directory taken
\* in its resolved form; when both are, it returns the client holding these two paths.
C15_ClientOnlyWhenBothAreSockets ==
    (/\ top.op = "from_env" /\ Done
     /\ top.arg[1] # PyNone /\ top.arg[2] # PyNone
     /\ top.arg[1].v # <<>> /\ top.arg[2].v # <<>>) =>
        LET dir == IF top.arg[1].v = <<47, 116, 109, 112>>       \* "/tmp"
                   THEN <<<<116, 109, 112>>>>
                   ELSE <<<<114, 117, 110>>, <<117>>>>            \* /run/u, however written
            Sock(name) == [abs |-> TRUE, parts |-> dir \o <<txt.hypr, top.arg[2].v, name>>]
            IsSocket(path) ==
                path.parts \in DOMAIN os.files /\ os.files[path.parts] = "socket"
        IN  IF IsSocket(Sock(txt.socketSock)) /\ IsSocket(Sock(txt.socket2Sock))
            THEN ret = Returned(JsonValue("HyprlandIPC",
                                          <<Sock(txt.socketSock), Sock(txt.socket2Sock)>>))
            ELSE /\ ret.kind = "raise" /\ ret.val.type = "HyprlandIPCError"
                 /\ Str(ret.val) = txt.socketsNotFound

\* .socket.sock is a socket and .socket2.sock is a regular file: from_env has failed.
C15_Witness ==
    /\ top.op = "from_env" /\ Done
    /\ top.arg = <<PyStr(<<47, 108>>), PyStr(<<115, 49>>)>>
    /\ \E f, g \in DOMAIN os.files :
          /\ f[Len(f)] = txt.socketSock /\ os.files[f] = "socket"
          /\ g[Len(g)] = txt.socket2Sock /\ os.files[g] = "file"
    /\ Len(os.probes) = 3
    /\ ret.kind = "raise" /\ Str(ret.val) = txt.socketsNotFound

(***************************************************************************)
(* Properties of the event stream.                                         *)
(***************************************************************************)

\* The generator has ended: by return or by an exception.
EventsEnded == gen.pc \in {"returned", "raised"}

\* Whether a line holds the separator ">>"; the Event of a line that does.
HasSeparator(line) == Partition(line, <<62, 62>>).found
LineEvent(line) ==
    Event(Utf8Decode(Partition(line, <<62, 62>>).head).text,
          Utf8Decode(Partition(line, <<62, 62>>).tail).text)

\* C5: however the stream arrived in parts, when events() has ended it has yielded one
\* Event per newline-terminated line that holds ">>", in wire order, name before the
\* first ">>" and payload after it.
C5_EventsFraming ==
    EventsEnded =>
        LET lines == SelectSeq(CompleteLines(evsock.sent), HasSeparator)
        IN  evout = [i \in 1..Len(lines) |-> LineEvent(lines[i])]

\* C6: a complete line without ">>" gives no Event, and the lines after it give theirs.
C6_LineWithoutSeparatorSkipped ==
    (EventsEnded /\ \E i \in 1..Len(CompleteLines(evsock.sent)) :
                        ~HasSeparator(CompleteLines(evsock.sent)[i])) =>
        /\ Len(evout) = Len(SelectSeq(CompleteLines(evsock.sent), HasSeparator))
        /\ \A i \in 1..Len(CompleteLines(evsock.sent)), j \in 1..Len(evout) :
              ~HasSeparator(CompleteLines(evsock.sent)[i]) =>
                  evout[j].name # Utf8Decode(CompleteLines(evsock.sent)[i]).text

\* C7: when the peer has sent complete event lines and closed, events() ends by return,
\* not by an exception, having yielded an Event per line, and its connection is closed.
C7_CleanCloseEndsWithoutError ==
    (/\ EventsEnded /\ evsock.peerClosed
     /\ evsock.sent # <<>> /\ evsock.sent[Len(evsock.sent)] = 10
     /\ \A i \in 1..Len(CompleteLines(evsock.sent)) :
           HasSeparator(CompleteLines(evsock.sent)[i])) =>
        /\ gen.pc = "returned"
        /\ evsock.state = "closed"
        /\ Len(evout) = Len(CompleteLines(evsock.sent))

\* C12: the event socket is open only while the body of events() runs; when the
\* generator has ended, by an exception or by return, the socket is closed, and a
\* generator given up before its first pull has made none.
C12_EventSocketReleased ==
    /\ EventsEnded => evsock.state = "closed"
    /\ gen.pc \in {"none", "created", "closed"} => evsock.state = "none"
    /\ evsock.state \in {"created", "connected"} => gen.pc \in {"connect", "select", "cast"}

\* The peer has sent an event line and closed; events() ended with an error during
\* reading, and its socket is closed.
C12_Witness ==
    /\ gen.pc = "raised" /\ gen.sel = "open"
    /\ evsock.sent # <<>> /\ evsock.peerClosed
    /\ evsock.state = "closed"

\* C29, as stated: when events() has ended, by the peer's close, by an error or by being
\* given up, what it acquired is released: its socket is closed, and so is the selector
\* the socket was registered with, if one was made.
C29_EveryResourceReleased ==
    gen.pc \in {"returned", "raised", "closed"} =>
        /\ evsock.state \in {"none", "closed"}
        /\ gen.sel \in {"none", "closed"}

C18_ReceivedLinesAreYielded ==
    (SelectSeq(CompleteLines(evsock.sent), HasSeparator) # <<>>) ~> (evout # <<>>)

\* C21: when events() has ended by a failure, what the consumer gets is the client's
\* error, made at the one handler of the body, with the failure as its cause (the refused
\* connect, the selector that could not be made, the failure while reading); a generator
\* that has failed stays failed and yields nothing more; and while nothing is ready to be
\* read the reader only polls again: that is no error and changes nothing.
C21_EventFailuresEndTheStream ==
    /\ [](gen.pc = "raised" =>
            /\ gen.exc # <<>> /\ gen.exc[1].type = "HyprlandIPCError"
            /\ gen.exc[1].site = "events" /\ gen.exc[1].cause # <<>>
            /\ gen.exc[1].cause[1] \in {ConnectionRefusedError, TooManyOpenFiles, NameErrorCast}
            /\ Str(gen.exc[1]) = txt.eventsFailed \o Str(gen.exc[1].cause[1])
            /\ gen.sel = "none" <=> gen.exc[1].cause[1] # NameErrorCast)
    /\ [](top.op = "listen_events" /\ Done => ret = Raised(gen.exc[1]))
    /\ [][gen.pc = "raised" => gen' = gen /\ evout' = evout]_vars
    /\ [][gen.pc \in {"connect", "select", "cast"} /\ gen'.pc \notin {"connect", "select", "cast"}
            => gen'.pc = "raised" /\ evout' = evout]_vars
    /\ [][gen.pc = "select" /\ evsock.inbox = <<>> /\ ~evsock.peerClosed
            => gen' = gen /\ evout' = evout]_vars

\* The selector could not be made after the connect: events() has ended with the client's
\* error, which holds the OSError, and has yielded nothing.
C21_Witness ==
    /\ gen.pc = "raised" /\ gen.exc[1].cause[1] = TooManyOpenFiles
    /\ evsock.state = "closed" /\ evout = <<>>
    /\ top.op = "listen_events" /\ Done

\* C22: a complete line whose name or payload is not UTF-8 gives no Event and no error:
\* when the stream has ended after such a line, events() has not raised, and it has
\* yielded the Events of the well-formed lines, those after the bad line too, in order.
C22_UndecodableLineSkipped ==
    LET Decodable(line) ==
            /\ Utf8Decode(Partition(line, <<62, 62>>).head).ok
            /\ Utf8Decode(Partition(line, <<62, 62>>).tail).ok
        WellFormed(line) == HasSeparator(line) /\ Decodable(line)
        lines == CompleteLines(evsock.sent)
        good == SelectSeq(lines, WellFormed)
    IN  (EventsEnded /\ \E i \in 1..Len(lines) : ~Decodable(lines[i])) =>
            /\ gen.pc = "returned"
            /\ evout = [i \in 1..Len(good) |-> LineEvent(good[i])]

C20_ReadersShareOneConnection ==
    \A t \in DOMAIN others :
        (evsock.state = "connected" /\ others[t].evsock.state = "connected") =>
            evsock.fd = others[t].evsock.fd

\* C20, amended: each events() call makes and connects a socket of its own, so two
\* readers at work at the same time never hold the same connection; what arrives on a
\* reader's connection is the start of one stream of the peer, and no reader has
\* yielded an Event that is not a record of its own connection's stream.
C20_ReadersHaveOwnConnections ==
    LET all == [t \in DOMAIN others \cup {me} |-> IF t = me THEN Context ELSE others[t]]
        Open(t) == all[t].evsock.state \in {"created", "connected"}
    IN  /\ \A t, u \in DOMAIN all :
              (t # u /\ Open(t) /\ Open(u)) => all[t].evsock.fd # all[u].evsock.fd
        /\ \A t \in DOMAIN all :
              /\ Open(t) => all[t].evsock.fd \in 1..Cardinality(DOMAIN all)
              /\ \E stream \in EventStreams \cup {<<>>} :
                    StartsWith(stream, all[t].evsock.sent)
              /\ \A i \in 1..Len(all[t].evout) :
                    \E j \in 1..Len(CompleteLines(all[t].evsock.sent)) :
                        /\ HasSeparator(CompleteLines(all[t].evsock.sent)[j])
                        /\ all[t].evout[i] = LineEvent(CompleteLines(all[t].evsock.sent)[j])

\* Two readers are connected at once, each on its own socket, and each socket holds
\* bytes of its own stream that wait to be read.
C20_Witness ==
    /\ evsock.state = "connected" /\ evsock.inbox # <<>>
    /\ \E t \in DOMAIN others :
          /\ others[t].evsock.state = "connected" /\ others[t].evsock.inbox # <<>>
          /\ others[t].evsock.fd # evsock.fd
          /\ others[t].evsock.sent[1] # evsock.sent[1]

====
